---- MODULE Spec2Model ----
(***************************************************************************)
(* Verification model of the Google Jobs API actor.                        *)
(*                                                                         *)
(* Three parts of the program are modelled, each with its own              *)
(* specification over the shared variables:                                *)
(*   SpecDb      insertJobsIntoDatabase (src/src/database.js and the copy  *)
(*               in src/src/main.js) against a PostgreSQL store            *)
(*   SpecSearch  searchJobs / searchAllJobs and the query loop of main     *)
(*   SpecEnrich  processJobsForDatabase (exclusion and enrichment chain)   *)
(***************************************************************************)
EXTENDS Integers, Sequences, FiniteSets, TLC

(***************************************************************************)
(* Bounds of the model                                                     *)
(***************************************************************************)
\* insertJobsIntoDatabase calls per run
MaxCalls == 2
\* jobs handed to insertJobsIntoDatabase over a run, all calls together
MaxJobs == 2

NULL == "NULL"

(***************************************************************************)
(* PART 1 - the persistence store                                          *)
(*                                                                         *)
(* The repository holds insertJobsIntoDatabase twice: src/src/database.js  *)
(* (conflict key apply_link) and src/src/main.js (conflict key title,      *)
(* company; this is the one main calls). impl says which one runs.         *)
(* The store is PostgreSQL: a statement the server rejects aborts the      *)
(* transaction, every later statement of it is rejected, and COMMIT of an  *)
(* aborted transaction is answered with ROLLBACK without raising.          *)
(***************************************************************************)
VARIABLES
  impl,           \* which insertJobsIntoDatabase runs: "database" or "main"
  pool,           \* module variable pool: FALSE is null
  db,             \* the committed tables
  tx,             \* the tables as seen inside the open transaction
  txState,        \* "none", "open", "aborted" (a statement failed on the server)
  dPc,            \* position inside insertJobsIntoDatabase
  remaining,      \* jobs of the batch the for-loop has not reached yet
  curJob,         \* the job of the current loop iteration
  curJobId,       \* jobResult.rows[0].id
  emailIdx,       \* position of the contact loop in job.emails
  insertedCount,  \* local insertedCount
  retVal,         \* value the last call returned
  callEnd,        \* "none", "returned", "threw": how the last call ended
  nextJobId,      \* SERIAL sequence of culinary_jobs_google.id
  nextContactId,  \* SERIAL sequence of culinary_contacts_google.id
  calls,          \* number of calls started
  jobsUsed,       \* jobs handed in so far, all calls together
  batchSize,      \* jobs.length of the last call
  nWritten,       \* jobs of the last call whose job statement succeeded
  nFailed,        \* jobs of the last call that ended in the job's catch
  lostWrite,      \* in the last call a job failed after another was written
  txEnd,          \* how the last call's transaction ended: "none", "COMMIT",
                  \* "ABORTED" (COMMIT of an aborted transaction) or "ROLLBACK"
  reUpserted,     \* the last call upserted a job whose row was already stored
  reContact,      \* the last call upserted a contact already stored
  txLog           \* what the last call did with its client, in order: "connect",
                  \* "BEGIN", "COMMIT", "ROLLBACK" (statements issued), "release"

dbVars == <<impl, pool, db, tx, txState, dPc, remaining, curJob, curJobId,
            emailIdx, insertedCount, retVal, callEnd, nextJobId, nextContactId,
            calls, jobsUsed, batchSize, nWritten, nFailed, lostWrite, txEnd, reUpserted, reContact,
            txLog>>

VARIABLES
  apiKey,         \* process.env.SEARCH_API_KEY is set
  runState,       \* "running", or "aborted" once an exception reached main
  qIdx,           \* queries started so far
  sPc,            \* position inside searchAllJobs: "idle", "fetch", "done"
  maxPages,       \* parameter maxPages
  allJobs,        \* local allJobs
  nextPageToken,  \* local nextPageToken
  currentPage,    \* local currentPage: the page fetches made
  pages,          \* per fetch of the call: the results the provider delivered
  pageTrace,      \* the fetches and inter-page delays of the call, in order
  fetchLog,       \* per fetch of the call: the token searchJobs was handed
                  \* and the nextPageToken of the page it returned
  lastKind,       \* what the last fetch met: "none", "page", "empty", "noKey",
                  \* "httpError", "networkError"
  lastHadToken,   \* the last provider response carried a continuation token
  failures        \* queries of the run that met a provider failure

searchVars == <<apiKey, runState, qIdx, sPc, maxPages, allJobs, nextPageToken,
                currentPage, pages, pageTrace, fetchLog,
                 lastKind, lastHadToken, failures>>

VARIABLES
  ePc,                \* position inside processJobsForDatabase
  includeHunterData,  \* parameter includeHunterData
  eJobs,              \* parameter jobs
  exclusionChecks,    \* per job taken: what shouldExcludeCompany(job.company) gave
  eIdx,               \* jobs of the list the for-loop has taken
  processedJob,       \* local processedJob of the current loop iteration
  processedJobs,      \* local processedJobs
  keptIdx,            \* per element of processedJobs: its position in jobs
  excludedCount,      \* local excludedCount
  excludedByCompany,  \* local excludedByCompany
  excludedByFastFood, \* local excludedByFastFood
  lookups,            \* the collaborator calls of this call, in order, with
                      \* the job they were made for and what they gave
  delays,             \* inter-job delays taken in this call
  report              \* the summary the call logged before it returned

enrichVars == <<ePc, includeHunterData, eJobs, exclusionChecks, eIdx, processedJob, processedJobs, keptIdx,
                excludedCount, excludedByCompany, excludedByFastFood, lookups, delays, report>>

VARIABLES
  mPc,                \* position of main in its query loop: "query" (searching),
                      \* "process", "persist", "end"
  maxPagesPerQuery,   \* input maxPagesPerQuery
  fullTimeOnly,       \* input fullTimeOnly
  saveToDataset,      \* input saveToDataset
  deduplicateJobs,    \* input deduplicateJobs
  excludeFastFood,    \* input excludeFastFood
  excludeRecruiters,  \* input excludeRecruiters
  mainIncludeHunterData, \* input includeHunterData, as main reads it
  jobsToProcess,      \* local jobsToProcess of the current query
  totalJobsFound,     \* local totalJobsFound
  totalJobsProcessed, \* local totalJobsProcessed
  totalJobsSaved,     \* local totalJobsSaved
  dataset,            \* the items Actor.pushData has stored, in order
  dbBatches           \* the arguments of the insertJobsIntoDatabase calls, in order

VARIABLES
  xPc,                \* position of the extractor pipeline: "idle", "raw", "job",
                      \* "salary", "skills", "level"
  xRaw,               \* the raw record of the provider
  xJob,               \* the canonical job searchJobs makes of it
  xSalaryInfo,        \* const salaryInfo of processJobsForDatabase
  xSkills,            \* const skills of processJobsForDatabase
  xExperienceLevel    \* const experienceLevel of processJobsForDatabase

extractVars == <<xPc, xRaw, xJob, xSalaryInfo, xSkills, xExperienceLevel>>

\* The inputs main reads and only logs.
loggedInputs == <<deduplicateJobs, excludeFastFood, excludeRecruiters, mainIncludeHunterData>>

mainVars == <<mPc, maxPagesPerQuery, fullTimeOnly, saveToDataset, loggedInputs, jobsToProcess,
              totalJobsFound, totalJobsProcessed, totalJobsSaved, dataset, dbBatches>>

\* The variables each part leaves alone.
nonDbVars == <<searchVars, enrichVars, mainVars, extractVars>>

nonSearchVars == <<dbVars, enrichVars, mainVars, extractVars>>

nonEnrichVars == <<dbVars, searchVars, mainVars, extractVars>>

\* The jobs handed to insertJobsIntoDatabase: the fields the upsert keys on
\* and the contact emails.
Jobs ==
  [title : {"t1", "t2"}, company : {"c1"}, apply_link : {"L1", "L2", NULL},
   emails : {<<>>, <<"e1", "e2">>}]

NoJob == [title |-> "", company |-> "", apply_link |-> NULL, emails |-> <<>>]

EmptyTables == [jobs |-> {}, contacts |-> {}]

\* Outcome of one statement: it succeeds, it raises before reaching the server
\* (the transaction is untouched), or the server rejects it.
Outcomes == {"ok", "client", "server"}

\* A unique constraint under which two NULLs are the same value.
ConflictRowsDatabaseNullsEqual(rows, job) ==
  {r \in rows : r.apply_link = job.apply_link}

\* ON CONFLICT (apply_link): the rows a job conflicts with under
\* CONSTRAINT unique_job_apply_link UNIQUE (apply_link). NULLs never conflict.
ConflictRowsDatabase(rows, job) ==
  {r \in rows : job.apply_link # NULL /\ r.apply_link = job.apply_link}

\* ON CONFLICT (title, company): the rows a job conflicts with under
\* CONSTRAINT culinary_jobs_google_title_company_key UNIQUE (title, company).
ConflictRowsMain(rows, job) ==
  {r \in rows : r.title = job.title /\ r.company = job.company}

ConflictRows(i, rows, job) ==
  IF i = "database" THEN ConflictRowsDatabase(rows, job) ELSE ConflictRowsMain(rows, job)

\* The row a job statement writes at time now: date_added and last_updated
\* are both the statement's timestamp.
JobRow(id, job, now) ==
  [id |-> id, title |-> job.title, company |-> job.company, apply_link |-> job.apply_link,
   date_added |-> now, last_updated |-> now]

\* The rows that store this very job: same title, company and apply_link.
SameJobRows(rows, job) ==
  {r \in rows : /\ r.title = job.title
                /\ r.company = job.company
                /\ r.apply_link = job.apply_link}

\* A plain INSERT: what the statement would do without its ON CONFLICT clause
\* on a table without the unique constraint.
PlainInsertJobRow(i, rows, job, id, now) ==
  [rows |-> rows \cup {JobRow(id, job, now)}, id |-> id]

\* A statement that replaces the conflicting row by the new one, creation
\* timestamp included.
UpsertJobRowReplace(i, rows, job, id, now) ==
  LET c == ConflictRows(i, rows, job) IN
  IF c = {}
    THEN [rows |-> rows \cup {JobRow(id, job, now)}, id |-> id]
    ELSE LET old == CHOOSE r \in c : TRUE IN
         [rows |-> (rows \ c) \cup {JobRow(old.id, job, now)}, id |-> old.id]

\* INSERT ... ON CONFLICT ... DO UPDATE SET ... RETURNING id, on the job table.
\* Gives the new rows and the returned id. On a conflict the SET list writes
\* the job's fields and last_updated; id and date_added are not in it.
UpsertJobRow(i, rows, job, id, now) ==
  LET c == ConflictRows(i, rows, job) IN
  IF c = {}
    THEN [rows |-> rows \cup {JobRow(id, job, now)}, id |-> id]
    ELSE LET old == CHOOSE r \in c : TRUE IN
         [rows |-> (rows \ c)
                     \cup {[JobRow(old.id, job, now) EXCEPT !.date_added = old.date_added]},
          id |-> old.id]

\* INSERT ... ON CONFLICT (job_id, email) DO UPDATE, on the contact table.
UpsertContactRow(rows, jobId, email, id) ==
  IF \E r \in rows : r.job_id = jobId /\ r.email = email
    THEN rows
    ELSE rows \cup {[id |-> id, job_id |-> jobId, email |-> email]}

InitDb ==
  /\ impl \in {"database", "main"}
  /\ pool = FALSE
  /\ db = EmptyTables
  /\ tx = EmptyTables
  /\ txState = "none"
  /\ dPc = "idle"
  /\ remaining = 0
  /\ curJob = NoJob
  /\ curJobId = 0
  /\ emailIdx = 0
  /\ insertedCount = 0
  /\ retVal = 0
  /\ callEnd = "none"
  /\ nextJobId = 1
  /\ nextContactId = 1
  /\ calls = 0
  /\ jobsUsed = 0
  /\ batchSize = 0
  /\ nWritten = 0
  /\ nFailed = 0
  /\ lostWrite = FALSE
  /\ txEnd = "none"
  /\ reUpserted = FALSE
  /\ reContact = FALSE
  /\ txLog = <<>>

\* initDatabase: without a connection string it returns false and leaves pool
\* alone; otherwise pool is assigned before the connection is tested.
initDatabase(hasConnectionString) ==
  /\ dPc = "idle"
  /\ pool' = (pool \/ hasConnectionString)
  /\ UNCHANGED <<impl, db, tx, txState, dPc, remaining, curJob, curJobId, emailIdx,
                 insertedCount, retVal, callEnd, nextJobId, nextContactId, calls,
                 jobsUsed, batchSize, nWritten, nFailed, lostWrite, txEnd, reUpserted, reContact,
                 txLog>>
  /\ UNCHANGED nonDbVars

\* End of a call: the value returned, or the exception that leaves it. The
\* client is released (finally) and the loop's locals are gone.
Finish(end, val) ==
  /\ dPc' = "idle"
  /\ callEnd' = end
  /\ retVal' = val
  /\ txState' = "none"
  /\ tx' = EmptyTables
  /\ curJob' = NoJob
  /\ curJobId' = 0
  /\ emailIdx' = 0

\* Entry of insertJobsIntoDatabase(jobs) with a batch of n jobs.
InsertCall(n) ==
  /\ dPc = "idle"
  /\ calls < MaxCalls
  /\ jobsUsed + n <= MaxJobs
  /\ calls' = calls + 1
  /\ jobsUsed' = jobsUsed + n
  /\ batchSize' = n
  /\ remaining' = n
  /\ insertedCount' = 0
  /\ nWritten' = 0
  /\ nFailed' = 0
  /\ lostWrite' = FALSE
  /\ txEnd' = "none"
  /\ reUpserted' = FALSE
  /\ reContact' = FALSE
  /\ txLog' = <<>>
  /\ IF ~pool
       THEN Finish("returned", 0)
       ELSE /\ dPc' = "connect"
            /\ callEnd' = "none"
            /\ UNCHANGED <<retVal, txState, tx, curJob, curJobId, emailIdx>>
  /\ UNCHANGED <<impl, pool, db, nextJobId, nextContactId>>
  /\ UNCHANGED nonDbVars

\* const client = await pool.connect()
PoolConnect(ok) ==
  /\ dPc = "connect"
  /\ txLog' = IF ok THEN Append(txLog, "connect") ELSE txLog
  /\ IF ok
       THEN /\ dPc' = "begin"
            /\ UNCHANGED <<callEnd, retVal, txState, tx, curJob, curJobId, emailIdx>>
       ELSE IF impl = "database"
              THEN Finish("threw", retVal)
              ELSE Finish("returned", insertedCount)
  /\ UNCHANGED <<impl, pool, db, remaining, insertedCount, nextJobId, nextContactId,
                 calls, jobsUsed, batchSize, nWritten, nFailed, lostWrite, txEnd, reUpserted, reContact>>
  /\ UNCHANGED nonDbVars

\* await client.query('BEGIN')
TxBegin(ok) ==
  /\ dPc = "begin"
  /\ txLog' = Append(txLog, "BEGIN")
  /\ IF ok
       THEN /\ txState' = "open"
            /\ tx' = db
            /\ dPc' = "loop"
       ELSE /\ dPc' = "rollback"
            /\ UNCHANGED <<txState, tx>>
  /\ UNCHANGED <<impl, pool, db, remaining, curJob, curJobId, emailIdx,
                 insertedCount, retVal, callEnd, nextJobId, nextContactId, calls,
                 jobsUsed, batchSize, nWritten, nFailed, lostWrite, txEnd, reUpserted, reContact>>
  /\ UNCHANGED nonDbVars

\* What a statement sent in state txState with outcome o does: inside an aborted
\* transaction the server rejects every statement.
Effective(o) ==
  IF o = "client" THEN "client"
  ELSE IF txState = "aborted" THEN "server"
  ELSE o

AfterStatement(o) == IF Effective(o) = "server" THEN "aborted" ELSE txState

\* The timestamp of the job statement, as a logical time. database.js leaves
\* it to the server: CURRENT_TIMESTAMP, the start of the transaction, one
\* per call. main.js binds now = new Date().toISOString(), taken in the
\* job's loop iteration.
StatementTime ==
  IF impl = "database" THEN calls ELSE jobsUsed - remaining + 1

\* One iteration of for (const job of jobs), up to the job statement.
UpsertJob(job, o) ==
  /\ dPc = "loop"
  /\ remaining > 0
  /\ txState' = AfterStatement(o)
  /\ IF Effective(o) = "ok"
       THEN LET u == UpsertJobRow(impl, tx.jobs, job, nextJobId, StatementTime) IN
            /\ tx' = [tx EXCEPT !.jobs = u.rows]
            /\ nextJobId' = nextJobId + 1
            /\ nWritten' = nWritten + 1
            /\ reUpserted' = (reUpserted \/ SameJobRows(tx.jobs, job) # {})
            /\ IF Len(job.emails) > 0
                 THEN /\ dPc' = "contacts"
                      /\ curJob' = job
                      /\ curJobId' = u.id
                      /\ emailIdx' = 1
                      /\ UNCHANGED <<insertedCount, remaining>>
                 ELSE /\ insertedCount' = insertedCount + 1
                      /\ remaining' = remaining - 1
                      /\ UNCHANGED <<dPc, curJob, curJobId, emailIdx>>
            /\ UNCHANGED <<nFailed, lostWrite>>
       ELSE \* catch (error): log and continue with the next job
            /\ remaining' = remaining - 1
            /\ nFailed' = nFailed + 1
            /\ lostWrite' = (lostWrite \/ nWritten > 0)
            /\ UNCHANGED <<tx, nextJobId, curJob, curJobId, dPc, emailIdx,
                           insertedCount, nWritten, reUpserted>>
  /\ UNCHANGED <<impl, pool, db, retVal, callEnd, nextContactId, calls, jobsUsed,
                 batchSize, txEnd, reContact, txLog>>
  /\ UNCHANGED nonDbVars

\* The loop leaves the job: back to for (const job of jobs).
LeaveJob ==
  /\ dPc' = "loop"
  /\ remaining' = remaining - 1
  /\ curJob' = NoJob
  /\ curJobId' = 0
  /\ emailIdx' = 0

\* One iteration of for (const email of job.emails).
UpsertContact(o) ==
  /\ dPc = "contacts"
  /\ txState' = AfterStatement(o)
  /\ LET email == curJob.emails[emailIdx]
         ok == Effective(o) = "ok"
         last == emailIdx = Len(curJob.emails)
     IN
     /\ IF ok
          THEN /\ tx' = [tx EXCEPT !.contacts =
                           UpsertContactRow(@, curJobId, email, nextContactId)]
               /\ nextContactId' = nextContactId + 1
               /\ reContact' = (reContact \/ \E r \in tx.contacts :
                                  r.job_id = curJobId /\ r.email = email)
          ELSE UNCHANGED <<tx, nextContactId, reContact>>
     /\ IF ~ok /\ impl = "database"
          THEN \* the error reaches the job's catch: the job is not counted
               /\ LeaveJob
               /\ nFailed' = nFailed + 1
               /\ lostWrite' = (lostWrite \/ nWritten > 1)
               /\ UNCHANGED insertedCount
          ELSE IF last
            THEN /\ LeaveJob
                 /\ insertedCount' = insertedCount + 1
                 /\ UNCHANGED <<nFailed, lostWrite>>
            ELSE /\ emailIdx' = emailIdx + 1
                 /\ UNCHANGED <<dPc, remaining, curJob, curJobId, insertedCount,
                                nFailed, lostWrite>>
  /\ UNCHANGED <<impl, pool, db, retVal, callEnd, nextJobId, calls, jobsUsed,
                 batchSize, nWritten, txEnd, reUpserted, txLog>>
  /\ UNCHANGED nonDbVars

\* await client.query('COMMIT'), after the loop. COMMIT of an aborted
\* transaction is answered with ROLLBACK and raises nothing.
TxCommit(ok) ==
  /\ dPc = "loop"
  /\ remaining = 0
  /\ txLog' = IF ok THEN txLog \o <<"COMMIT", "release">> ELSE Append(txLog, "COMMIT")
  /\ IF ok
       THEN /\ IF txState = "open"
                 THEN /\ db' = tx
                      /\ txEnd' = "COMMIT"
                 ELSE /\ txEnd' = "ABORTED"
                      /\ UNCHANGED db
            /\ Finish("returned", insertedCount)
       ELSE /\ dPc' = "rollback"
            /\ UNCHANGED <<db, txEnd, callEnd, retVal, txState, tx,
                           curJob, curJobId, emailIdx>>
  /\ UNCHANGED <<impl, pool, remaining, insertedCount, nextJobId, nextContactId,
                 calls, jobsUsed, batchSize, nWritten, nFailed, lostWrite,
                 reUpserted, reContact>>
  /\ UNCHANGED nonDbVars

\* A catch without finally: a ROLLBACK that raises leaves the function with
\* the client still checked out.
TxRollbackNoFinally(ok) ==
  /\ dPc = "rollback"
  /\ txEnd' = "ROLLBACK"
  /\ txLog' = IF ok THEN txLog \o <<"ROLLBACK", "release">> ELSE Append(txLog, "ROLLBACK")
  /\ IF impl = "database"
       THEN IF ok THEN Finish("returned", 0) ELSE Finish("threw", retVal)
       ELSE Finish("returned", insertedCount)
  /\ UNCHANGED <<impl, pool, db, remaining, insertedCount, nextJobId,
                 nextContactId, calls, jobsUsed, batchSize, nWritten, nFailed,
                 lostWrite, reUpserted, reContact>>
  /\ UNCHANGED nonDbVars

\* catch (error) { await client.query('ROLLBACK'); ... } finally { release }:
\* the client is released whether ROLLBACK resolves or raises. ROLLBACK is
\* never rejected by the server; it raises when the connection is lost, and
\* the server then ends the session and its transaction.
TxRollback(ok) ==
  /\ dPc = "rollback"
  /\ txEnd' = "ROLLBACK"
  /\ txLog' = txLog \o <<"ROLLBACK", "release">>
  /\ IF impl = "database"
       THEN IF ok THEN Finish("returned", 0) ELSE Finish("threw", retVal)
       ELSE Finish("returned", insertedCount)
  /\ UNCHANGED <<impl, pool, db, remaining, insertedCount, nextJobId,
                 nextContactId, calls, jobsUsed, batchSize, nWritten, nFailed,
                 lostWrite, reUpserted, reContact>>
  /\ UNCHANGED nonDbVars

(***************************************************************************)
(* Strings the program takes apart are sequences of characters, so that    *)
(* toLowerCase, includes, startsWith and endsWith are computed as          *)
(* JavaScript computes them; strings it only compares whole are strings.   *)
(***************************************************************************)
UpperCase == <<"A", "B", "C", "D", "E", "F", "G", "H", "I", "J", "K", "L", "M",
               "N", "O", "P", "Q", "R", "S", "T", "U", "V", "W", "X", "Y", "Z">>

LowerCase == <<"a", "b", "c", "d", "e", "f", "g", "h", "i", "j", "k", "l", "m",
               "n", "o", "p", "q", "r", "s", "t", "u", "v", "w", "x", "y", "z">>

\* String.prototype.toLowerCase
ToLowerCase(s) ==
  [k \in 1..Len(s) |->
     IF \E i \in DOMAIN UpperCase : UpperCase[i] = s[k]
       THEN LowerCase[CHOOSE i \in DOMAIN UpperCase : UpperCase[i] = s[k]]
       ELSE s[k]]

\* String.prototype.includes
Includes(s, sub) ==
  \E i \in 1..(Len(s) - Len(sub) + 1) : SubSeq(s, i, i + Len(sub) - 1) = sub

\* String.prototype.startsWith
StartsWith(s, sub) == Len(sub) <= Len(s) /\ SubSeq(s, 1, Len(sub)) = sub

\* String.prototype.endsWith
EndsWith(s, sub) ==
  Len(sub) <= Len(s) /\ SubSeq(s, Len(s) - Len(sub) + 1, Len(s)) = sub

Digits == <<"0", "1", "2", "3", "4", "5", "6", "7", "8", "9">>

\* \s of a regular expression; the strings of the model hold no other white
\* space than the blank.
IsSpace(c) == c = " "

\* A field the provider left out: undefined. It is told apart from every
\* string, the empty one included.
Undefined == <<"undefined">>

\* The value is truthy: a string that is present and not empty.
TruthyString(v) == v # Undefined /\ v # <<>>

MinOf(S) == CHOOSE i \in S : \A j \in S : i <= j

MaxOf(S) == CHOOSE i \in S : \A j \in S : j <= i

\* String.prototype.trim
Trim(s) ==
  LET inked == {i \in 1..Len(s) : ~IsSpace(s[i])} IN
  IF inked = {} THEN <<>> ELSE SubSeq(s, MinOf(inked), MaxOf(inked))

\* s holds sub at position p.
HoldsAt(s, p, sub) ==
  p + Len(sub) - 1 <= Len(s) /\ SubSeq(s, p, p + Len(sub) - 1) = sub

UnknownCompany == <<"U", "n", "k", "n", "o", "w", "n", " ", "C", "o", "m", "p", "a", "n", "y">>

LunaBistro == <<"L", "u", "n", "a", " ", "B", "i", "s", "t", "r", "o">>

ChartwellsCorp == <<"C", "h", "a", "r", "t", "w", "e", "l", "l", "s", " ", "C", "o", "r", "p">>

SubwayName == <<"S", "u", "b", "w", "a", "y">>

Subways == <<"S", "u", "b", "w", "a", "y", "s">>

KfcWashington == <<"K", "F", "C", " ", "W", "a", "s", "h", "i", "n", "g", "t", "o", "n">>

AirportKfc == <<"A", "i", "r", "p", "o", "r", "t", " ", "K", "F", "C">>

UncleMcDonaldsDiner == <<"U", "n", "c", "l", "e", " ", "M", "c", "D", "o", "n", "a", "l", "d", "'", "s", " ", "D", "i", "n", "e", "r">>

UnknownTitle == <<"U", "n", "k", "n", "o", "w", "n", " ", "T", "i", "t", "l",
                  "e">>

UnknownLocation == <<"U", "n", "k", "n", "o", "w", "n", " ", "L", "o", "c",
                     "a", "t", "i", "o", "n">>

NoDescription == <<"N", "o", " ", "d", "e", "s", "c", "r", "i", "p", "t",
                   "i", "o", "n", " ", "a", "v", "a", "i", "l", "a", "b",
                   "l", "e">>

LineCook == <<"L", "i", "n", "e", " ", "C", "o", "o", "k">>

McDonaldsExpress == <<"M", "c", "D", "o", "n", "a", "l", "d", "'", "s", " ", "E", "x", "p", "r", "e", "s", "s">>

(***************************************************************************)
(* PART 2 - searchJobs, searchAllJobs and the query loop of main           *)
(***************************************************************************)
\* largest maxPages handed to searchAllJobs
MaxPagesBound == 3
\* results on one provider page
MaxPageLen == 2
\* queries of one run
MaxQueries == 2

\* Raw provider records: the fields normalization reads. One record has them
\* all, the other one has none. job_highlights is a list: a record without
\* the field and one with an empty list are normalized alike.
RawResults ==
  {[title |-> LineCook, company_name |-> LunaBistro, location |-> <<"N", "Y", "C">>,
    description |-> <<"G", "o", "o", "d", " ", "p", "a", "y", ".">>,
    schedule |-> "Full-time", extensions |-> <<>>, job_highlights |-> <<>>],
   [title |-> Undefined, company_name |-> Undefined, location |-> Undefined,
    description |-> Undefined, schedule |-> "", extensions |-> <<>>,
    job_highlights |-> <<>>]}

SeqsUpTo(S, n) == UNION {[1..k -> S] : k \in 0..n}

Tokens == {NULL, "tokA"}

\* What one HTTP exchange with the provider gives: a success or non-success
\* response with its body, or a rejected fetch.
Responses ==
  [kind : {"ok", "httpError"}, jobs : SeqsUpTo(RawResults, MaxPageLen), token : Tokens]
    \cup {[kind |-> "networkError", jobs |-> <<>>, token |-> NULL]}

FailureKinds == {"noKey", "httpError", "networkError"}

\* job.title.match(/^(.*?)\s+-\s+/): group 1 of the match, or Undefined
\* without a match. The group is the shortest prefix that white space, a
\* hyphen and white space follow.
TitleMatch(title) ==
  LET n == Len(title)
      Follows(i) ==
        \E k \in 1..(n - i) :
          /\ \A p \in (i + 1)..(i + k) : IsSpace(title[p])
          /\ i + k + 2 <= n
          /\ title[i + k + 1] = "-"
          /\ IsSpace(title[i + k + 2])
      starts == {i \in 0..n : Follows(i)}
  IN IF starts = {} THEN Undefined ELSE SubSeq(title, 1, MinOf(starts))

\* job.description.match(/(?:at|with|for|join)\s+([\w\s&']+?)(?:\sin|\.|\!|\,)/i):
\* group 1 of the match, or Undefined without a match. Fits(low, s, k, g):
\* the pattern matches the lowered description from position s with k
\* characters of white space and a group of g characters after the keyword.
\* Of the matches the engine takes the leftmost start, there the longest
\* white space (\s+ is greedy), there the shortest group (+? is lazy).
DescMatch(description) ==
  LET Keywords == <<<<"a", "t">>, <<"w", "i", "t", "h">>, <<"f", "o", "r">>,
                    <<"j", "o", "i", "n">>>>
      KeywordLen(low, s) ==
        IF \E w \in DOMAIN Keywords : HoldsAt(low, s, Keywords[w])
          THEN Len(Keywords[CHOOSE w \in DOMAIN Keywords : HoldsAt(low, s, Keywords[w])])
          ELSE 0
      WordChars ==
        {UpperCase[i] : i \in DOMAIN UpperCase} \cup {LowerCase[i] : i \in DOMAIN LowerCase}
          \cup {Digits[i] : i \in DOMAIN Digits} \cup {"_"}
      InClass(c) == c \in WordChars \/ IsSpace(c) \/ c = "&" \/ c = "'"
      Closes(low, p) ==
        \/ p <= Len(low) /\ low[p] \in {".", "!", ","}
        \/ p + 2 <= Len(low) /\ IsSpace(low[p]) /\ low[p + 1] = "i" /\ low[p + 2] = "n"
      Fits(low, s, k, g) ==
        /\ KeywordLen(low, s) > 0
        /\ s + KeywordLen(low, s) + k + g - 1 <= Len(low)
        /\ \A p \in 0..(k - 1) : IsSpace(low[s + KeywordLen(low, s) + p])
        /\ \A p \in k..(k + g - 1) : InClass(low[s + KeywordLen(low, s) + p])
        /\ Closes(low, s + KeywordLen(low, s) + k + g)
      FitsOf(low) ==
        {m \in (1..Len(low)) \X (1..Len(low)) \X (1..Len(low)) : Fits(low, m[1], m[2], m[3])}
      Prefers(m, o) ==
        \/ m[1] < o[1]
        \/ m[1] = o[1] /\ m[2] > o[2]
        \/ m[1] = o[1] /\ m[2] = o[2] /\ m[3] <= o[3]
      Group(low, m) ==
        SubSeq(description, m[1] + KeywordLen(low, m[1]) + m[2],
               m[1] + KeywordLen(low, m[1]) + m[2] + m[3] - 1)
      best == UNION {UNION {{Group(low, m) : m \in {x \in fits : \A o \in fits : Prefers(x, o)}} :
                              fits \in {FitsOf(low)}} :
                     low \in {ToLowerCase(description)}}
  IN IF best = {} THEN Undefined ELSE CHOOSE g \in best : TRUE

\* A recovery that asks the description before the title.
RecoveredCompanyDescriptionFirst(raw) ==
  IF TruthyString(raw.company_name) THEN raw.company_name
  ELSE LET descMatch == IF TruthyString(raw.description)
                          THEN DescMatch(raw.description) ELSE Undefined IN
       IF TruthyString(descMatch) /\ TruthyString(Trim(descMatch)) THEN Trim(descMatch)
       ELSE LET titleMatch == IF TruthyString(raw.title) THEN TitleMatch(raw.title)
                              ELSE Undefined
            IN IF TruthyString(titleMatch) THEN titleMatch ELSE raw.company_name

\* let companyName = job.company_name; if (!companyName) { ... }: the name
\* recovered from the title or, failing that, from the description.
RecoveredCompany(raw) ==
  IF TruthyString(raw.company_name) THEN raw.company_name
  ELSE LET titleMatch == IF TruthyString(raw.title) THEN TitleMatch(raw.title) ELSE Undefined IN
       IF TruthyString(titleMatch) THEN titleMatch
       ELSE LET descMatch == IF TruthyString(raw.description)
                               THEN DescMatch(raw.description) ELSE Undefined
            IN IF TruthyString(descMatch) THEN Trim(descMatch) ELSE raw.company_name

\* A normalization that passes the provider's fields on as they are.
NormalizeJobNoDefaults(raw) ==
  [title |-> raw.title,
   company |-> RecoveredCompany(raw),
   location |-> raw.location,
   schedule |-> IF raw.schedule # "" THEN raw.schedule ELSE "Unknown",
   description |-> raw.description,
   extensions |-> raw.extensions,
   highlights |-> raw.job_highlights]

\* The map callback of searchJobs: one raw record to the canonical job.
NormalizeJob(raw) ==
  [title |-> IF TruthyString(raw.title) THEN raw.title ELSE UnknownTitle,
   company |-> IF TruthyString(RecoveredCompany(raw))
                 THEN RecoveredCompany(raw) ELSE UnknownCompany,
   location |-> IF TruthyString(raw.location) THEN raw.location ELSE UnknownLocation,
   schedule |-> IF raw.schedule # "" THEN raw.schedule ELSE "Unknown",
   description |-> IF TruthyString(raw.description) THEN raw.description ELSE NoDescription,
   extensions |-> raw.extensions,
   highlights |-> raw.job_highlights]

MapNormalize(rs) == [k \in 1..Len(rs) |-> NormalizeJob(rs[k])]

EmptyPage == [jobs |-> <<>>, hasMore |-> FALSE, nextPageToken |-> NULL, threw |-> FALSE]

\* searchJobs without its try/catch: a rejected fetch leaves the function.
searchJobsUncaught(key, resp) ==
  IF ~key THEN EmptyPage
  ELSE IF resp.kind = "networkError" THEN [EmptyPage EXCEPT !.threw = TRUE]
  ELSE IF resp.kind = "httpError" THEN EmptyPage
  ELSE IF Len(resp.jobs) = 0 THEN EmptyPage
  ELSE [jobs |-> MapNormalize(resp.jobs), hasMore |-> resp.token # NULL,
        nextPageToken |-> resp.token, threw |-> FALSE]

\* searchJobs(query, location, nextPageToken): the page it returns for a
\* provider response. Every failure gives { jobs: [], hasMore: false }.
searchJobs(key, resp) ==
  IF ~key THEN EmptyPage
  ELSE IF resp.kind = "networkError" THEN EmptyPage
  ELSE IF resp.kind = "httpError" THEN EmptyPage
  ELSE IF Len(resp.jobs) = 0 THEN EmptyPage
  ELSE [jobs |-> MapNormalize(resp.jobs), hasMore |-> resp.token # NULL,
        nextPageToken |-> resp.token, threw |-> FALSE]

\* A loop body that follows the provider's token and does not stop at an
\* empty page.
PageStepNoEmptyStop(key, resp, acc, token, page, max) ==
  LET result == searchJobs(key, resp) IN
  [allJobs |-> acc \o result.jobs, nextPageToken |-> resp.token,
   currentPage |-> page + 1, again |-> resp.token # NULL /\ page + 1 < max,
   delay |-> result.hasMore /\ page + 1 < max, threw |-> result.threw,
          returned |-> result.nextPageToken]

\* A loop body whose page ceiling is off by one.
PageStepOffByOne(key, resp, acc, token, page, max) ==
  LET result == searchJobs(key, resp) IN
  IF Len(result.jobs) = 0
    THEN [allJobs |-> acc, nextPageToken |-> token, currentPage |-> page + 1,
          again |-> FALSE, delay |-> FALSE, threw |-> result.threw,
          returned |-> result.nextPageToken]
    ELSE [allJobs |-> acc \o result.jobs, nextPageToken |-> result.nextPageToken,
          currentPage |-> page + 1,
          again |-> result.nextPageToken # NULL /\ page + 1 <= max,
          delay |-> result.hasMore /\ page + 1 < max, threw |-> result.threw,
          returned |-> result.nextPageToken]

\* A loop body that puts each page in front of the earlier ones.
PageStepPrepend(key, resp, acc, token, page, max) ==
  LET result == searchJobs(key, resp) IN
  IF Len(result.jobs) = 0
    THEN [allJobs |-> acc, nextPageToken |-> token, currentPage |-> page + 1,
          again |-> FALSE, delay |-> FALSE, threw |-> result.threw,
          returned |-> result.nextPageToken]
    ELSE [allJobs |-> result.jobs \o acc, nextPageToken |-> result.nextPageToken,
          currentPage |-> page + 1,
          again |-> result.nextPageToken # NULL /\ page + 1 < max,
          delay |-> result.hasMore /\ page + 1 < max, threw |-> result.threw,
          returned |-> result.nextPageToken]

\* A loop body that takes the delay after every page that holds jobs.
PageStepDelayAlways(key, resp, acc, token, page, max) ==
  LET result == searchJobs(key, resp) IN
  IF Len(result.jobs) = 0
    THEN [allJobs |-> acc, nextPageToken |-> token, currentPage |-> page + 1,
          again |-> FALSE, delay |-> FALSE, threw |-> result.threw,
          returned |-> result.nextPageToken]
    ELSE [allJobs |-> acc \o result.jobs, nextPageToken |-> result.nextPageToken,
          currentPage |-> page + 1,
          again |-> result.nextPageToken # NULL /\ page + 1 < max,
          delay |-> TRUE, threw |-> result.threw,
          returned |-> result.nextPageToken]

\* A loop body that never stores the token of the page it fetched.
PageStepStaleToken(key, resp, acc, token, page, max) ==
  LET result == searchJobs(key, resp) IN
  IF Len(result.jobs) = 0
    THEN [allJobs |-> acc, nextPageToken |-> token, currentPage |-> page + 1,
          again |-> FALSE, delay |-> FALSE, threw |-> result.threw,
          returned |-> result.nextPageToken]
    ELSE [allJobs |-> acc \o result.jobs, nextPageToken |-> token,
          currentPage |-> page + 1,
          again |-> result.nextPageToken # NULL /\ page + 1 < max,
          delay |-> result.hasMore /\ page + 1 < max, threw |-> result.threw,
          returned |-> result.nextPageToken]

\* One pass through the do { ... } while of searchAllJobs: the locals after
\* it, whether the inter-page delay is taken at its end, whether the loop
\* goes round again, and the nextPageToken of the page searchJobs returned.
PageStep(key, resp, acc, token, page, max) ==
  LET result == searchJobs(key, resp) IN
  IF Len(result.jobs) = 0
    THEN [allJobs |-> acc, nextPageToken |-> token, currentPage |-> page + 1,
          again |-> FALSE, delay |-> FALSE, threw |-> result.threw,
          returned |-> result.nextPageToken]
    ELSE [allJobs |-> acc \o result.jobs, nextPageToken |-> result.nextPageToken,
          currentPage |-> page + 1,
          again |-> result.nextPageToken # NULL /\ page + 1 < max,
          delay |-> result.hasMore /\ page + 1 < max, threw |-> result.threw,
          returned |-> result.nextPageToken]

\* if (nextPageToken) { searchUrl += `&next_page_token=...` }: the token the
\* request carries, NULL when the URL has no next_page_token parameter.
SentToken(token) == IF token # NULL /\ token # "" THEN token ELSE NULL

\* What the last fetch met.
KindOf(key, resp) ==
  IF ~key THEN "noKey"
  ELSE IF resp.kind # "ok" THEN resp.kind
  ELSE IF Len(resp.jobs) = 0 THEN "empty"
  ELSE "page"

\* The results the provider delivered with a response.
Delivered(key, resp) ==
  IF key /\ resp.kind = "ok" THEN resp.jobs ELSE <<>>

InitSearch ==
  /\ apiKey \in BOOLEAN
  /\ runState = "running"
  /\ qIdx = 0
  /\ sPc = "idle"
  /\ maxPages = 1
  /\ allJobs = <<>>
  /\ nextPageToken = NULL
  /\ currentPage = 0
  /\ pages = <<>>
  /\ pageTrace = <<>>
  /\ fetchLog = <<>>
  /\ lastKind = "none"
  /\ lastHadToken = FALSE
  /\ failures = 0

\* main: const jobs = await searchAllJobs(query, location, pagesToProcess),
\* for the next query of the list.
StartQuery(m) ==
  /\ runState = "running"
  /\ sPc \in {"idle", "done"}
  /\ qIdx < MaxQueries
  /\ qIdx' = qIdx + 1
  /\ sPc' = "fetch"
  /\ maxPages' = m
  /\ allJobs' = <<>>
  /\ nextPageToken' = NULL
  /\ currentPage' = 0
  /\ pages' = <<>>
  /\ pageTrace' = <<>>
  /\ fetchLog' = <<>>
  /\ lastKind' = "none"
  /\ lastHadToken' = FALSE
  /\ UNCHANGED <<apiKey, runState, failures>>
  /\ UNCHANGED nonSearchVars

\* One page fetch of searchAllJobs with the provider answering resp.
FetchPage(resp) ==
  /\ sPc = "fetch"
  /\ LET st == PageStep(apiKey, resp, allJobs, nextPageToken, currentPage, maxPages) IN
     /\ allJobs' = st.allJobs
     /\ nextPageToken' = st.nextPageToken
     /\ currentPage' = st.currentPage
     /\ pageTrace' = pageTrace \o <<"fetch">> \o (IF st.delay THEN <<"delay">> ELSE <<>>)
     /\ fetchLog' = Append(fetchLog, [sent |-> SentToken(nextPageToken),
                                      returned |-> st.returned])
     /\ IF st.threw
          THEN /\ sPc' = "threw"
               /\ runState' = "aborted"
          ELSE /\ sPc' = IF st.again THEN "fetch" ELSE "done"
               /\ UNCHANGED runState
  /\ pages' = Append(pages, Delivered(apiKey, resp))
  /\ lastKind' = KindOf(apiKey, resp)
  /\ lastHadToken' = (resp.token # NULL)
  /\ failures' = IF KindOf(apiKey, resp) \in FailureKinds THEN failures + 1 ELSE failures
  /\ UNCHANGED <<apiKey, qIdx, maxPages>>
  /\ UNCHANGED nonSearchVars

NextSearch ==
  \/ \E m \in 1..MaxPagesBound : StartQuery(m)
  \/ \E resp \in Responses : FetchPage(resp)

(***************************************************************************)
(* PART 3 - processJobsForDatabase: exclusion and the enrichment chain     *)
(*                                                                         *)
(* search_api.js and hunter_api.js are outside the model: what their four  *)
(* functions return, or that they raise, is an input of the step that      *)
(* calls them.                                                             *)
(***************************************************************************)
\* jobs handed to one processJobsForDatabase call
MaxEnrichJobs == 2

\* EXCLUDED_COMPANIES, in insertion order: the entries that can occur in the
\* company names of the model, lower-cased as the source does.
EXCLUDED_COMPANIES ==
  LET names == <<<<"C", "h", "a", "r", "t", "w", "e", "l", "l", "s">>,
                 <<"C", "o", "m", "p", "a", "s", "s">>,
                 <<"w", "a", "s", "h", "i", "n", "g", "t", "o", "n">>>>
  IN [k \in DOMAIN names |-> ToLowerCase(names[k])]

\* FAST_FOOD_RESTAURANTS, likewise.
FAST_FOOD_RESTAURANTS ==
  LET names == <<<<"M", "c", "D", "o", "n", "a", "l", "d", "'", "s">>,
                 <<"S", "u", "b", "w", "a", "y">>,
                 <<"K", "F", "C">>>>
  IN [k \in DOMAIN names |-> ToLowerCase(names[k])]

NotExcluded == [isExcluded |-> FALSE, reason |-> NULL, match |-> <<>>]

\* A fast-food test by plain substring containment.
FastFoodSubstring(lowerCompany, fastFood) == Includes(lowerCompany, fastFood)

\* if (lowerCompany === fastFood || includes(` ${fastFood} `) ||
\*     startsWith(`${fastFood} `) || endsWith(` ${fastFood}`))
FastFoodMatch(lowerCompany, fastFood) ==
  \/ lowerCompany = fastFood
  \/ Includes(lowerCompany, <<" ">> \o fastFood \o <<" ">>)
  \/ StartsWith(lowerCompany, fastFood \o <<" ">>)
  \/ EndsWith(lowerCompany, <<" ">> \o fastFood)

\* A classifier that consults the fast-food list first.
shouldExcludeCompanyFastFoodFirst(company) ==
  IF company = <<>> \/ company = UnknownCompany THEN NotExcluded
  ELSE
    LET lowerCompany == ToLowerCase(company)
        ex == {k \in DOMAIN EXCLUDED_COMPANIES : Includes(lowerCompany, EXCLUDED_COMPANIES[k])}
        ff == {k \in DOMAIN FAST_FOOD_RESTAURANTS :
                 FastFoodMatch(lowerCompany, FAST_FOOD_RESTAURANTS[k])}
        First(S) == CHOOSE k \in S : \A m \in S : k <= m
    IN IF ff # {}
         THEN [isExcluded |-> TRUE, reason |-> "fast_food",
               match |-> FAST_FOOD_RESTAURANTS[First(ff)]]
       ELSE IF ex # {}
         THEN [isExcluded |-> TRUE, reason |-> "excluded_company",
               match |-> EXCLUDED_COMPANIES[First(ex)]]
       ELSE NotExcluded

shouldExcludeCompany(company) ==
  IF company = <<>> \/ company = UnknownCompany THEN NotExcluded
  ELSE
    LET lowerCompany == ToLowerCase(company)
        ex == {k \in DOMAIN EXCLUDED_COMPANIES : Includes(lowerCompany, EXCLUDED_COMPANIES[k])}
        ff == {k \in DOMAIN FAST_FOOD_RESTAURANTS :
                 FastFoodMatch(lowerCompany, FAST_FOOD_RESTAURANTS[k])}
        First(S) == CHOOSE k \in S : \A m \in S : k <= m
    IN IF ex # {}
         THEN [isExcluded |-> TRUE, reason |-> "excluded_company",
               match |-> EXCLUDED_COMPANIES[First(ex)]]
       ELSE IF ff # {}
         THEN [isExcluded |-> TRUE, reason |-> "fast_food",
               match |-> FAST_FOOD_RESTAURANTS[First(ff)]]
       ELSE NotExcluded

\* Company names of the jobs of an enriching call: one the classifier keeps
\* and one for each reason of exclusion.
EnrichCompanies == {LunaBistro, ChartwellsCorp, SubwayName}

\* Company names of the jobs of a call without enrichment: every shape of
\* name the classifier tells apart.
ClassifyCompanies ==
  {LunaBistro, UnknownCompany, <<>>, Subways, ChartwellsCorp, KfcWashington,
   SubwayName, AirportKfc, UncleMcDonaldsDiner, McDonaldsExpress}

\* What a collaborator call gives: it raises, or returns null or a value.
Raised == [emails |-> <<>>, kind |-> "raise", str |-> ""]

ReturnedNull == [emails |-> <<>>, kind |-> "null", str |-> ""]

ReturnedString(s) == [emails |-> <<>>, kind |-> "value", str |-> s]

ReturnedContacts(es) == [emails |-> es, kind |-> "value", str |-> ""]

\* getWebsiteUrlFromSearchAPI(job.company)
WebsiteReturns ==
  {Raised, ReturnedNull, ReturnedString(""), ReturnedString("https://www.lunabistro.com/about")}

\* getDomainFromUrl(companyUrl)
DomainReturns ==
  {Raised, ReturnedNull, ReturnedString(""), ReturnedString("lunabistro.com")}

\* findEmailsWithHunter(domain, job.company), findEmailsByCompanyName(job.company)
ContactReturns ==
  {Raised, ReturnedNull, ReturnedContacts(<<>>), ReturnedContacts(<<"e1">>),
   ReturnedContacts(<<"e2", "e3">>)}

\* if (companyUrl), if (domain)
Truthy(ret) == ret.kind = "value" /\ ret.str # ""

\* if (emails && emails.length > 0)
HasContacts(ret) == ret.kind = "value" /\ Len(ret.emails) > 0

\* A chain that asks byDomain whenever a website was found.
AfterWebsiteNoDomainCheck(companyUrl, domain) ==
  IF Truthy(companyUrl) THEN "byDomain" ELSE "byName"

\* A chain that asks for the website again when none was found.
AfterWebsiteAsksAgain(companyUrl, domain) ==
  IF Truthy(companyUrl)
    THEN IF Truthy(domain) THEN "byDomain" ELSE "byName"
    ELSE "website"

\* The branch taken once the website lookup and, for a website found, the
\* domain extraction have returned: which contact lookup runs first.
AfterWebsite(companyUrl, domain) ==
  IF Truthy(companyUrl)
    THEN IF Truthy(domain) THEN "byDomain" ELSE "byName"
    ELSE "byName"

\* A chain that falls back to the company name whatever byDomain returned.
AfterByDomainAlwaysFallback(emails) == "byName"

\* The branch taken once findEmailsWithHunter has returned.
AfterByDomain(emails) ==
  IF HasContacts(emails) THEN "delay" ELSE "byName"

\* const processedJob = { ..., company_website: null, company_domain: null, emails: [] }
NewProcessedJob(job) ==
  [title |-> job.title, company |-> job.company,
   company_website |-> NULL, company_domain |-> NULL, emails |-> <<>>]

NoProcessedJob ==
  [title |-> <<>>, company |-> <<>>,
   company_website |-> NULL, company_domain |-> NULL, emails |-> <<>>]

Lookup(j, fn, ret) == [job |-> j, fn |-> fn, ret |-> ret]

\* Nothing logged yet.
NoReport == [logged |-> FALSE, excludedCount |-> 0, excludedByCompany |-> 0,
             excludedByFastFood |-> 0, returned |-> 0]

InitEnrich ==
  /\ ePc = "idle"
  /\ includeHunterData = FALSE
  /\ eJobs = <<>>
  /\ exclusionChecks = <<>>
  /\ eIdx = 0
  /\ processedJob = NoProcessedJob
  /\ processedJobs = <<>>
  /\ keptIdx = <<>>
  /\ excludedCount = 0
  /\ excludedByCompany = 0
  /\ excludedByFastFood = 0
  /\ lookups = <<>>
  /\ delays = 0
  /\ report = NoReport

\* processJobsForDatabase(jobs, includeHunterData): entry.
processJobsForDatabase(jobs, inc) ==
  /\ ePc \in {"idle", "done"}
  /\ ePc' = "loop"
  /\ includeHunterData' = inc
  /\ eJobs' = jobs
  /\ exclusionChecks' = <<>>
  /\ eIdx' = 0
  /\ processedJob' = NoProcessedJob
  /\ processedJobs' = <<>>
  /\ keptIdx' = <<>>
  /\ excludedCount' = 0
  /\ excludedByCompany' = 0
  /\ excludedByFastFood' = 0
  /\ lookups' = <<>>
  /\ delays' = 0
  /\ report' = NoReport
  /\ UNCHANGED nonEnrichVars

\* processedJobs.push(processedJob), at the end of the loop body.
PushProcessed(pj) ==
  /\ processedJobs' = Append(processedJobs, pj)
  /\ keptIdx' = Append(keptIdx, eIdx)
  /\ ePc' = "loop"

\* A chain without its try/catch: the error leaves processJobsForDatabase.
ChainNoCatch(pj) ==
  /\ ePc' = "threw"
  /\ UNCHANGED <<processedJobs, keptIdx>>

\* A catch that leaves the loop body: the job is not pushed.
ChainCatchSkipsJob(pj) ==
  /\ ePc' = "loop"
  /\ UNCHANGED <<processedJobs, keptIdx>>

\* A catch that puts the enrichment fields back to their initial values.
ChainCatchResets(pj) ==
  PushProcessed([pj EXCEPT !.company_website = NULL, !.company_domain = NULL,
                           !.emails = <<>>])

\* catch (error) { console.error(...) }: the error is logged, nothing is
\* reset, and the loop body goes on to its push.
ChainCatch(pj) == PushProcessed(pj)

\* A loop body that enriches whatever the parameter says.
EnrichmentAlways(inc) == TRUE

\* if (includeHunterData)
EnrichmentEnabled(inc) == inc

\* A loop that drops only the jobs of excluded organizations.
DropsOnlyExcludedCompany(exclusionCheck) ==
  exclusionCheck.isExcluded /\ exclusionCheck.reason = "excluded_company"

\* if (exclusionCheck.isExcluded) { ...; continue; }
DropsJob(exclusionCheck) == exclusionCheck.isExcluded

\* A counter that goes up for every excluded job.
TallyAny(count, reason, exclusionCheck) == count + 1

\* if (exclusionCheck.reason === 'excluded_company') excludedByCompany++;
\* else if (exclusionCheck.reason === 'fast_food') excludedByFastFood++;
Tally(count, reason, exclusionCheck) ==
  IF exclusionCheck.reason = reason THEN count + 1 ELSE count

\* for (const job of jobs): the loop body up to its first await.
ForEachJob ==
  /\ ePc = "loop"
  /\ eIdx < Len(eJobs)
  /\ LET job == eJobs[eIdx + 1]
         exclusionCheck == shouldExcludeCompany(job.company)
     IN /\ eIdx' = eIdx + 1
        /\ exclusionChecks' = Append(exclusionChecks, exclusionCheck)
        /\ IF DropsJob(exclusionCheck)
             THEN /\ excludedByCompany' =
                       Tally(excludedByCompany, "excluded_company", exclusionCheck)
                  /\ excludedByFastFood' =
                       Tally(excludedByFastFood, "fast_food", exclusionCheck)
                  /\ excludedCount' = excludedCount + 1
                  /\ UNCHANGED <<ePc, processedJob, processedJobs, keptIdx>>
             ELSE /\ UNCHANGED <<excludedCount, excludedByCompany, excludedByFastFood>>
                  /\ IF EnrichmentEnabled(includeHunterData)
                       THEN /\ processedJob' = NewProcessedJob(job)
                            /\ ePc' = "website"
                            /\ UNCHANGED <<processedJobs, keptIdx>>
                       ELSE /\ processedJobs' = Append(processedJobs, NewProcessedJob(job))
                            /\ keptIdx' = Append(keptIdx, eIdx + 1)
                            /\ UNCHANGED <<ePc, processedJob>>
  /\ UNCHANGED <<includeHunterData, eJobs, lookups, delays, report>>
  /\ UNCHANGED nonEnrichVars

\* await getWebsiteUrlFromSearchAPI(job.company) answers url; for a website
\* found, getDomainFromUrl(companyUrl) answers dom.
WebsiteLookup(url, dom) ==
  /\ ePc = "website"
  /\ IF url.kind = "raise"
       THEN /\ lookups' = Append(lookups, Lookup(eIdx, "getWebsiteUrlFromSearchAPI", url))
            /\ ChainCatch(processedJob)
            /\ UNCHANGED processedJob
       ELSE IF ~Truthy(url)
         THEN /\ lookups' = Append(lookups, Lookup(eIdx, "getWebsiteUrlFromSearchAPI", url))
              /\ ePc' = AfterWebsite(url, dom)
              /\ UNCHANGED <<processedJob, processedJobs, keptIdx>>
       ELSE /\ lookups' = lookups \o <<Lookup(eIdx, "getWebsiteUrlFromSearchAPI", url),
                                       Lookup(eIdx, "getDomainFromUrl", dom)>>
            /\ IF dom.kind = "raise"
                 THEN /\ processedJob' = [processedJob EXCEPT !.company_website = url.str]
                      /\ ChainCatch(processedJob')
                 ELSE /\ processedJob' =
                           [processedJob EXCEPT
                              !.company_website = url.str,
                              !.company_domain = IF Truthy(dom) THEN dom.str ELSE @]
                      /\ ePc' = AfterWebsite(url, dom)
                      /\ UNCHANGED <<processedJobs, keptIdx>>
  /\ UNCHANGED <<includeHunterData, eJobs, exclusionChecks, eIdx, excludedCount, excludedByCompany,
                 excludedByFastFood, delays, report>>
  /\ UNCHANGED nonEnrichVars

\* await findEmailsWithHunter(domain, job.company) answers emails.
findEmailsWithHunter(emails) ==
  /\ ePc = "byDomain"
  /\ lookups' = Append(lookups, Lookup(eIdx, "findEmailsWithHunter", emails))
  /\ IF emails.kind = "raise"
       THEN /\ ChainCatch(processedJob)
            /\ UNCHANGED processedJob
       ELSE /\ processedJob' = IF HasContacts(emails)
                                 THEN [processedJob EXCEPT !.emails = emails.emails]
                                 ELSE processedJob
            /\ ePc' = AfterByDomain(emails)
            /\ UNCHANGED <<processedJobs, keptIdx>>
  /\ UNCHANGED <<includeHunterData, eJobs, exclusionChecks, eIdx, excludedCount, excludedByCompany,
                 excludedByFastFood, delays, report>>
  /\ UNCHANGED nonEnrichVars

\* await findEmailsByCompanyName(job.company) answers companyEmails, at any of
\* its three call sites.
findEmailsByCompanyName(companyEmails) ==
  /\ ePc = "byName"
  /\ lookups' = Append(lookups, Lookup(eIdx, "findEmailsByCompanyName", companyEmails))
  /\ IF companyEmails.kind = "raise"
       THEN /\ ChainCatch(processedJob)
            /\ UNCHANGED processedJob
       ELSE /\ processedJob' = IF HasContacts(companyEmails)
                                 THEN [processedJob EXCEPT !.emails = companyEmails.emails]
                                 ELSE processedJob
            /\ ePc' = "delay"
            /\ UNCHANGED <<processedJobs, keptIdx>>
  /\ UNCHANGED <<includeHunterData, eJobs, exclusionChecks, eIdx, excludedCount, excludedByCompany,
                 excludedByFastFood, delays, report>>
  /\ UNCHANGED nonEnrichVars

\* await new Promise(resolve => setTimeout(resolve, 2000)), then the push.
EnrichDelay ==
  /\ ePc = "delay"
  /\ delays' = delays + 1
  /\ PushProcessed(processedJob)
  /\ UNCHANGED <<includeHunterData, eJobs, exclusionChecks, eIdx, processedJob, excludedCount,
                 excludedByCompany, excludedByFastFood, lookups, report>>
  /\ UNCHANGED nonEnrichVars

\* console.info(`Filtering results: ...`), console.info(`Returning ...`),
\* return processedJobs
ReturnProcessedJobs ==
  /\ ePc = "loop"
  /\ eIdx = Len(eJobs)
  /\ report' = [logged |-> TRUE, excludedCount |-> excludedCount,
                excludedByCompany |-> excludedByCompany,
                excludedByFastFood |-> excludedByFastFood,
                returned |-> Len(processedJobs)]
  /\ ePc' = "done"
  /\ UNCHANGED <<includeHunterData, eJobs, exclusionChecks, eIdx, processedJob, processedJobs,
                 keptIdx, excludedCount, excludedByCompany, excludedByFastFood, lookups, delays>>
  /\ UNCHANGED nonEnrichVars

\* The calls of the model: the company name plays no part in the chain once
\* the job is kept, so the enriching calls take their jobs from the smaller
\* set of names.
EnrichCalls ==
  [jobs : SeqsUpTo([title : {LineCook}, company : EnrichCompanies], MaxEnrichJobs),
   inc : {TRUE}]
    \cup [jobs : SeqsUpTo([title : {LineCook}, company : ClassifyCompanies], MaxEnrichJobs),
           inc : {FALSE}]

\* One call per run: the entry resets every local, so a second call reaches
\* no state the first does not.
NextEnrich ==
  \/ \E c \in EnrichCalls : ePc = "idle" /\ processJobsForDatabase(c.jobs, c.inc)
  \/ ForEachJob
  \/ \E url \in WebsiteReturns, dom \in DomainReturns : WebsiteLookup(url, dom)
  \/ \E emails \in ContactReturns : findEmailsWithHunter(emails)
  \/ \E companyEmails \in ContactReturns : findEmailsByCompanyName(companyEmails)
  \/ EnrichDelay
  \/ ReturnProcessedJobs

(***************************************************************************)
(* PART 4 - the query loop of main                                         *)
(*                                                                         *)
(* The loop calls searchAllJobs (Part 2), filters by schedule, calls       *)
(* processJobsForDatabase (Part 3), pushes the result to the dataset and   *)
(* hands it to insertJobsIntoDatabase. What the store does with a batch is *)
(* Part 1; here the call is its argument.                                  *)
(***************************************************************************)
\* jobs the provider delivers in one run, all queries together
MaxRunJobs == 2

\* 'Full-time'
FullTimeText == <<"F", "u", "l", "l", "-", "t", "i", "m", "e">>

\* Raw provider records of a run: a kept company, a fast-food company with
\* and without the full-time schedule, and an excluded organization whose
\* schedule is told by an extension only.
MainRawResults ==
  {[title |-> LineCook, company_name |-> LunaBistro, location |-> Undefined,
    description |-> Undefined,
    schedule |-> "Full-time", extensions |-> <<>>, job_highlights |-> <<>>],
   [title |-> LineCook, company_name |-> SubwayName, location |-> Undefined,
    description |-> Undefined,
    schedule |-> "Full-time", extensions |-> <<>>, job_highlights |-> <<>>],
   [title |-> LineCook, company_name |-> SubwayName, location |-> Undefined,
    description |-> Undefined,
    schedule |-> "Part-time", extensions |-> <<>>, job_highlights |-> <<>>],
   [title |-> LineCook, company_name |-> ChartwellsCorp, location |-> Undefined,
    description |-> Undefined,
    schedule |-> "", extensions |-> <<FullTimeText>>, job_highlights |-> <<>>]}

\* The provider's answers in a run: pages of at most one result, or a
\* rejected fetch.
MainResponses ==
  [kind : {"ok"}, jobs : SeqsUpTo(MainRawResults, 1), token : Tokens]
    \cup {[kind |-> "networkError", jobs |-> <<>>, token |-> NULL]}

\* const forceHunterData = true
forceHunterData == TRUE

\* A filter that compares the schedule in lower case.
IsFullTimeLowerCase(job) ==
  \/ job.schedule = "full-time"
  \/ \E k \in DOMAIN job.extensions : Includes(job.extensions[k], ToLowerCase(FullTimeText))

\* job.schedule === 'Full-time' ||
\* (job.extensions && job.extensions.some(ext => ext.includes('Full-time')))
IsFullTime(job) ==
  \/ job.schedule = "Full-time"
  \/ \E k \in DOMAIN job.extensions : Includes(job.extensions[k], FullTimeText)

\* A filter that is applied whatever the input says.
FilteredJobsAlways(jobs, fto) == SelectSeq(jobs, IsFullTime)

\* let filteredJobs = jobs; if (fullTimeOnly) { filteredJobs = jobs.filter(...) }
FilteredJobs(jobs, fto) ==
  IF fto THEN SelectSeq(jobs, IsFullTime) ELSE jobs

\* The locals of main before the loop.
MainStart ==
  /\ mPc = "query"
  /\ jobsToProcess = <<>>
  /\ totalJobsFound = 0
  /\ totalJobsProcessed = 0
  /\ totalJobsSaved = 0
  /\ dataset = <<>>
  /\ dbBatches = <<>>

\* The defaults of the inputs main only logs.
DefaultLoggedInputs ==
  /\ deduplicateJobs = TRUE
  /\ excludeFastFood = TRUE
  /\ excludeRecruiters = TRUE
  /\ mainIncludeHunterData = TRUE

\* The defaults of the input.
InitMain ==
  /\ MainStart
  /\ maxPagesPerQuery = 10
  /\ fullTimeOnly = TRUE
  /\ saveToDataset = TRUE
  /\ DefaultLoggedInputs

\* const jobs = await searchAllJobs(query, location, pagesToProcess), for the
\* next query of the list.
MainSearch ==
  /\ mPc = "query"
  /\ sPc = "idle"
  /\ StartQuery(maxPagesPerQuery)

\* One page fetch of the running searchAllJobs call.
MainFetchPage(resp) ==
  /\ mPc = "query"
  /\ totalJobsFound + Len(allJobs) + Len(resp.jobs) <= MaxRunJobs
  /\ FetchPage(resp)

\* searchAllJobs has returned: continue on an empty list, otherwise count the
\* jobs and filter them by schedule.
MainAfterSearch ==
  /\ mPc = "query"
  /\ sPc = "done"
  /\ sPc' = "idle"
  /\ IF Len(allJobs) = 0
       THEN UNCHANGED <<mPc, jobsToProcess, totalJobsFound>>
       ELSE /\ totalJobsFound' = totalJobsFound + Len(allJobs)
            /\ jobsToProcess' = FilteredJobs(allJobs, fullTimeOnly)
            /\ mPc' = "process"
  /\ UNCHANGED <<apiKey, runState, qIdx, maxPages, allJobs, nextPageToken, currentPage,
                 pages, pageTrace, fetchLog,
                 lastKind, lastHadToken, failures>>
  /\ UNCHANGED <<maxPagesPerQuery, fullTimeOnly, saveToDataset, loggedInputs,
                 totalJobsProcessed, totalJobsSaved, dataset, dbBatches>>
  /\ UNCHANGED <<dbVars, enrichVars, extractVars>>

\* const processedJobs = await processJobsForDatabase(jobsToProcess, forceHunterData)
MainProcess ==
  /\ mPc = "process"
  /\ ePc = "idle"
  /\ processJobsForDatabase(jobsToProcess, forceHunterData)

\* processJobsForDatabase has returned: count the jobs and, if saveToDataset,
\* await Actor.pushData(processedJobs). A push that rejects leaves the loop
\* through the outer catch, which rethrows.
MainAfterProcess(pushOk) ==
  /\ mPc = "process"
  /\ ePc = "done"
  /\ ePc' = "idle"
  /\ totalJobsProcessed' = totalJobsProcessed + Len(processedJobs)
  /\ IF saveToDataset /\ ~pushOk
       THEN /\ runState' = "aborted"
            /\ mPc' = "end"
            /\ UNCHANGED <<dataset, totalJobsSaved>>
       ELSE /\ mPc' = "persist"
            /\ dataset' = IF saveToDataset THEN dataset \o processedJobs ELSE dataset
            /\ totalJobsSaved' =
                 IF saveToDataset THEN totalJobsSaved + Len(processedJobs) ELSE totalJobsSaved
            /\ UNCHANGED runState
  /\ UNCHANGED <<apiKey, qIdx, sPc, maxPages, allJobs, nextPageToken, currentPage,
                 pages, pageTrace, fetchLog,
                 lastKind, lastHadToken, failures>>
  /\ UNCHANGED <<includeHunterData, eJobs, exclusionChecks, eIdx, processedJob, processedJobs,
                 keptIdx, excludedCount, excludedByCompany, excludedByFastFood, lookups,
                 delays, report>>
  /\ UNCHANGED <<maxPagesPerQuery, fullTimeOnly, saveToDataset, loggedInputs, jobsToProcess,
                 totalJobsFound, dbBatches>>
  /\ UNCHANGED <<dbVars, extractVars>>

\* A loop that gives up the run when the database cannot be initialized.
MainPersistAborts(dbInitialized) ==
  /\ mPc = "persist"
  /\ IF dbInitialized
       THEN /\ dbBatches' = Append(dbBatches, processedJobs)
            /\ mPc' = "query"
            /\ UNCHANGED searchVars
       ELSE /\ mPc' = "end"
            /\ runState' = "aborted"
            /\ UNCHANGED <<dbBatches, apiKey, qIdx, sPc, maxPages, allJobs, nextPageToken,
                           currentPage, pages, pageTrace, fetchLog,
                 lastKind, lastHadToken, failures>>
  /\ UNCHANGED <<maxPagesPerQuery, fullTimeOnly, saveToDataset, loggedInputs, jobsToProcess,
                 totalJobsFound, totalJobsProcessed, totalJobsSaved, dataset>>
  /\ UNCHANGED <<dbVars, enrichVars, extractVars>>

\* const dbInitialized = await initDatabase();
\* if (dbInitialized) { await insertJobsIntoDatabase(processedJobs) }
\* Neither call raises: both catch their errors.
MainPersist(dbInitialized) ==
  /\ mPc = "persist"
  /\ dbBatches' = IF dbInitialized THEN Append(dbBatches, processedJobs) ELSE dbBatches
  /\ mPc' = "query"
  /\ UNCHANGED <<maxPagesPerQuery, fullTimeOnly, saveToDataset, loggedInputs, jobsToProcess,
                 totalJobsFound, totalJobsProcessed, totalJobsSaved, dataset>>
  /\ UNCHANGED <<dbVars, searchVars, enrichVars, extractVars>>

\* The list of queries is through: the totals are logged.
MainEnd ==
  /\ mPc = "query"
  /\ sPc = "idle"
  /\ qIdx = MaxQueries
  /\ mPc' = "end"
  /\ UNCHANGED <<maxPagesPerQuery, fullTimeOnly, saveToDataset, loggedInputs, jobsToProcess,
                 totalJobsFound, totalJobsProcessed, totalJobsSaved, dataset, dbBatches>>
  /\ UNCHANGED <<dbVars, searchVars, enrichVars, extractVars>>

NextMain ==
  \/ MainSearch
  \/ \E resp \in MainResponses : MainFetchPage(resp)
  \/ MainAfterSearch
  \/ MainProcess
  \/ ForEachJob
  \/ \E url \in {Raised, ReturnedString("u1")}, dom \in {ReturnedString("d1")} :
       WebsiteLookup(url, dom)
  \/ \E emails \in {ReturnedContacts(<<>>)} : findEmailsWithHunter(emails)
  \/ \E companyEmails \in {ReturnedContacts(<<"e1">>)} : findEmailsByCompanyName(companyEmails)
  \/ EnrichDelay
  \/ ReturnProcessedJobs
  \/ \E pushOk \in BOOLEAN : MainAfterProcess(pushOk)
  \/ \E dbInitialized \in BOOLEAN : MainPersist(dbInitialized)
  \/ MainEnd

(***************************************************************************)
(* PART 5 - the field extractors of processJobsForDatabase                 *)
(*                                                                         *)
(* extractSalaryInfo and calculateExperienceLevel are pure functions of    *)
(* the canonical job; they are applied to what searchJobs makes of a raw   *)
(* record.                                                                 *)
(***************************************************************************)

\* The last position of the longest run of characters of C that starts at
\* position p of s; p - 1 when there is no such character at p.
RunEnd(s, p, C) == MaxOf({e \in (p - 1)..Len(s) : \A q \in p..e : s[q] \in C})

\* (hour|year|month|week|day)
SalaryUnits ==
  <<<<"h", "o", "u", "r">>, <<"y", "e", "a", "r">>, <<"m", "o", "n", "t", "h">>,
    <<"w", "e", "e", "k">>, <<"d", "a", "y">>>>

\* text.match(/\$([0-9,.]+)(?:\s*-\s*\$([0-9,.]+))?(?:\s*(per|a|\/)\s*(hour|year|month|week|day))?/i):
\* groups 1, 2 and 4 of the match, a group that took no part being Undefined.
\* The leftmost dollar sign that an amount character follows starts the
\* match; each of the two optional parts is taken when it matches. Range and
\* Period give the first and last position of group 2 and of group 4 for the
\* part tried after position e, <<0, 0>> when the part does not match.
SalaryMatch(text) ==
  LET AmountChars == {Digits[i] : i \in DOMAIN Digits} \cup {",", "."}
      Keywords == <<<<"p", "e", "r">>, <<"a">>, <<"/">>>>
      FirstHeld(s, p, ws) ==
        IF \E w \in DOMAIN ws : HoldsAt(s, p, ws[w])
          THEN MinOf({w \in DOMAIN ws : HoldsAt(s, p, ws[w])})
          ELSE 0
      Range(e) ==
        LET hyphen == RunEnd(text, e + 1, {" "}) + 1
            dollar == RunEnd(text, hyphen + 1, {" "}) + 1
        IN IF /\ hyphen <= Len(text)
              /\ text[hyphen] = "-"
              /\ dollar + 1 <= Len(text)
              /\ text[dollar] = "$"
              /\ text[dollar + 1] \in AmountChars
             THEN <<dollar + 1, RunEnd(text, dollar + 1, AmountChars)>>
             ELSE <<0, 0>>
      Period(low, e) ==
        LET word == RunEnd(low, e + 1, {" "}) + 1
            k == FirstHeld(low, word, Keywords)
            unit == RunEnd(low, word + Len(Keywords[k]), {" "}) + 1
            u == FirstHeld(low, unit, SalaryUnits)
        IN IF k = 0 \/ u = 0 THEN <<0, 0>> ELSE <<unit, unit + Len(SalaryUnits[u]) - 1>>
      Groups(p) ==
        LET e1 == RunEnd(text, p + 1, AmountChars)
            range == Range(e1)
            period == Period(ToLowerCase(text), IF range[1] = 0 THEN e1 ELSE range[2])
        IN [matched |-> TRUE,
            g1 |-> SubSeq(text, p + 1, e1),
            g2 |-> IF range[1] = 0 THEN Undefined ELSE SubSeq(text, range[1], range[2]),
            g4 |-> IF period[1] = 0 THEN Undefined ELSE SubSeq(text, period[1], period[2])]
      starts == {p \in 1..(Len(text) - 1) : text[p] = "$" /\ text[p + 1] \in AmountChars}
  IN IF starts = {}
       THEN [matched |-> FALSE, g1 |-> Undefined, g2 |-> Undefined, g4 |-> Undefined]
       ELSE CHOOSE m \in {Groups(p) : p \in {MinOf(starts)}} : TRUE

\* The values of salaryInfo.min and salaryInfo.max: null, NaN, or a decimal
\* number, held as its whole part and the digits of its fraction without
\* trailing zeros.
Null == [kind |-> "null", whole |-> 0, frac |-> <<>>]

Number(whole, frac) == [kind |-> "number", whole |-> whole, frac |-> frac]

\* parseFloat(group.replace(/,/g, '')): the commas are taken out; the longest
\* prefix of the rest that is a decimal literal is the number, and the
\* result is NaN when that prefix holds no digit.
ParseAmount(group) ==
  LET DigitChars == {Digits[i] : i \in DOMAIN Digits}
      DigitValue(c) == (CHOOSE i \in DOMAIN Digits : Digits[i] = c) - 1
      RECURSIVE DecimalValue(_)
      DecimalValue(ds) ==
        IF ds = <<>> THEN 0
        ELSE 10 * DecimalValue(SubSeq(ds, 1, Len(ds) - 1)) + DigitValue(ds[Len(ds)])
      RECURSIVE DropTrailingZeros(_)
      DropTrailingZeros(ds) ==
        IF ds # <<>> /\ ds[Len(ds)] = "0"
          THEN DropTrailingZeros(SubSeq(ds, 1, Len(ds) - 1))
          ELSE ds
      Parsed(s) ==
        LET w == RunEnd(s, 1, DigitChars)
            f == IF w + 1 <= Len(s) /\ s[w + 1] = "." THEN RunEnd(s, w + 2, DigitChars) ELSE w
            frac == IF f > w + 1 THEN SubSeq(s, w + 2, f) ELSE <<>>
        IN IF w = 0 /\ frac = <<>> THEN [kind |-> "NaN", whole |-> 0, frac |-> <<>>]
           ELSE Number(DecimalValue(SubSeq(s, 1, w)), DropTrailingZeros(frac))
  IN Parsed(SelectSeq(group, LAMBDA c : c # ","))

\* if (period === 'hour') salaryInfo.period = 'hourly'; else if ...
PeriodOf(period, old) ==
  IF period = SalaryUnits[1] THEN "hourly"
  ELSE IF period = SalaryUnits[2] THEN "yearly"
  ELSE IF period = SalaryUnits[3] THEN "monthly"
  ELSE IF period = SalaryUnits[4] THEN "weekly"
  ELSE IF period = SalaryUnits[5] THEN "daily"
  ELSE old

\* A salaryInfo whose max stays null when no second amount follows.
ApplySalaryMatchNoMax(salaryInfo, salaryMatch) ==
  [min |-> ParseAmount(salaryMatch.g1),
   max |-> IF TruthyString(salaryMatch.g2) THEN ParseAmount(salaryMatch.g2) ELSE Null,
   currency |-> salaryInfo.currency,
   period |-> IF TruthyString(salaryMatch.g4)
                THEN PeriodOf(ToLowerCase(salaryMatch.g4), salaryInfo.period)
                ELSE salaryInfo.period]

\* The body of if (salaryMatch) { ... }: min, max and, when group 4 took
\* part in the match, the period.
ApplySalaryMatch(salaryInfo, salaryMatch) ==
  [min |-> ParseAmount(salaryMatch.g1),
   max |-> IF TruthyString(salaryMatch.g2)
             THEN ParseAmount(salaryMatch.g2)
             ELSE ParseAmount(salaryMatch.g1),
   currency |-> salaryInfo.currency,
   period |-> IF TruthyString(salaryMatch.g4)
                THEN PeriodOf(ToLowerCase(salaryMatch.g4), salaryInfo.period)
                ELSE salaryInfo.period]

InitialSalaryInfo == [min |-> Null, max |-> Null, currency |-> "USD", period |-> "yearly"]

\* FromItems: for (const item of highlight.items) { ... break; }, the first
\* item that matches is applied. FromHighlights: for (const highlight of
\* job.highlights), every highlight titled 'Compensation' is gone through, in
\* order. The description is read when that left min null, 0 or NaN.
extractSalaryInfo(job) ==
  LET RECURSIVE FromItems(_, _)
      FromItems(info, items) ==
        IF items = <<>> THEN info
        ELSE IF SalaryMatch(Head(items)).matched
          THEN ApplySalaryMatch(info, SalaryMatch(Head(items)))
          ELSE FromItems(info, Tail(items))
      RECURSIVE FromHighlights(_, _)
      FromHighlights(info, highlights) ==
        IF highlights = <<>> THEN info
        ELSE FromHighlights(
               IF Head(highlights).title = "Compensation"
                 THEN FromItems(info, Head(highlights).items)
                 ELSE info,
               Tail(highlights))
      Falsy(v) == v.kind # "number" \/ (v.whole = 0 /\ v.frac = <<>>)
      Described(info) ==
        IF /\ Falsy(info.min)
           /\ TruthyString(job.description)
           /\ SalaryMatch(job.description).matched
          THEN ApplySalaryMatch(info, SalaryMatch(job.description))
          ELSE info
  IN CHOOSE out \in {Described(info) : info \in {FromHighlights(InitialSalaryInfo, job.highlights)}} :
       TRUE

\* const commonCulinarySkills = [...]
commonCulinarySkills ==
  <<<<"c", "o", "o", "k", "i", "n", "g">>,
    <<"b", "a", "k", "i", "n", "g">>,
    <<"g", "r", "i", "l", "l", "i", "n", "g">>,
    <<"s", "a", "u", "t", "é", "i", "n", "g">>,
    <<"k", "n", "i", "f", "e", " ", "s", "k", "i", "l", "l", "s">>,
    <<"f", "o", "o", "d", " ", "p", "r", "e", "p", "a", "r", "a", "t", "i", "o", "n">>,
    <<"m", "e", "n", "u", " ", "p", "l", "a", "n", "n", "i", "n", "g">>,
    <<"r", "e", "c", "i", "p", "e", " ", "d", "e", "v", "e", "l", "o", "p", "m", "e", "n", "t">>,
    <<"f", "o", "o", "d", " ", "s", "a", "f", "e", "t", "y">>,
    <<"s", "a", "n", "i", "t", "a", "t", "i", "o", "n">>,
    <<"i", "n", "v", "e", "n", "t", "o", "r", "y", " ", "m", "a", "n", "a", "g", "e", "m", "e", "n", "t">>,
    <<"k", "i", "t", "c", "h", "e", "n", " ", "m", "a", "n", "a", "g", "e", "m", "e", "n", "t">>,
    <<"p", "l", "a", "t", "i", "n", "g">>,
    <<"g", "a", "r", "n", "i", "s", "h", "i", "n", "g">>,
    <<"c", "u", "l", "i", "n", "a", "r", "y", " ", "a", "r", "t", "s">>,
    <<"p", "a", "s", "t", "r", "y">>,
    <<"b", "u", "t", "c", "h", "e", "r", "y">>,
    <<"s", "o", "u", "s", " ", "v", "i", "d", "e">>,
    <<"f", "o", "o", "d", " ", "p", "r", "e", "s", "e", "n", "t", "a", "t", "i", "o", "n">>,
    <<"c", "a", "t", "e", "r", "i", "n", "g">>,
    <<"b", "a", "n", "q", "u", "e", "t">>>>

\* An extractSkills that pushes a term for every Qualifications item that
\* holds it.
extractSkillsNoSeenCheck(job) ==
  LET RECURSIVE FromDescription(_, _, _)
      FromDescription(skills, low, k) ==
        IF k > Len(commonCulinarySkills) THEN skills
        ELSE FromDescription(
               IF Includes(low, ToLowerCase(commonCulinarySkills[k]))
                 THEN Append(skills, commonCulinarySkills[k]) ELSE skills,
               low, k + 1)
      RECURSIVE FromItem(_, _, _)
      FromItem(skills, low, k) ==
        IF k > Len(commonCulinarySkills) THEN skills
        ELSE FromItem(
               IF Includes(low, ToLowerCase(commonCulinarySkills[k]))
                 THEN Append(skills, commonCulinarySkills[k]) ELSE skills,
               low, k + 1)
      RECURSIVE FromItems(_, _)
      FromItems(skills, items) ==
        IF items = <<>> THEN skills
        ELSE FromItems(
               CHOOSE out \in {FromItem(skills, low, 1) : low \in {ToLowerCase(Head(items))}} :
                 TRUE,
               Tail(items))
      RECURSIVE FromHighlights(_, _)
      FromHighlights(skills, highlights) ==
        IF highlights = <<>> THEN skills
        ELSE FromHighlights(
               IF Head(highlights).title = "Qualifications"
                 THEN FromItems(skills, Head(highlights).items)
                 ELSE skills,
               Tail(highlights))
      Described ==
        IF TruthyString(job.description)
          THEN CHOOSE out \in {FromDescription(<<>>, low, 1) :
                                 low \in {ToLowerCase(job.description)}} : TRUE
          ELSE <<>>
  IN FromHighlights(Described, job.highlights)

\* extractSkills(job). FromDescription: the loop over the vocabulary for the
\* description; FromItem: the loop over the vocabulary for one item, which
\* pushes a term only if skills does not hold it yet; FromItems and
\* FromHighlights: the loops over the items of every highlight titled
\* 'Qualifications'.
extractSkills(job) ==
  LET RECURSIVE FromDescription(_, _, _)
      FromDescription(skills, low, k) ==
        IF k > Len(commonCulinarySkills) THEN skills
        ELSE FromDescription(
               IF Includes(low, ToLowerCase(commonCulinarySkills[k]))
                 THEN Append(skills, commonCulinarySkills[k]) ELSE skills,
               low, k + 1)
      RECURSIVE FromItem(_, _, _)
      FromItem(skills, low, k) ==
        IF k > Len(commonCulinarySkills) THEN skills
        ELSE FromItem(
               IF /\ Includes(low, ToLowerCase(commonCulinarySkills[k]))
                  /\ \A i \in DOMAIN skills : skills[i] # commonCulinarySkills[k]
                 THEN Append(skills, commonCulinarySkills[k]) ELSE skills,
               low, k + 1)
      RECURSIVE FromItems(_, _)
      FromItems(skills, items) ==
        IF items = <<>> THEN skills
        ELSE FromItems(
               CHOOSE out \in {FromItem(skills, low, 1) : low \in {ToLowerCase(Head(items))}} :
                 TRUE,
               Tail(items))
      RECURSIVE FromHighlights(_, _)
      FromHighlights(skills, highlights) ==
        IF highlights = <<>> THEN skills
        ELSE FromHighlights(
               IF Head(highlights).title = "Qualifications"
                 THEN FromItems(skills, Head(highlights).items)
                 ELSE skills,
               Tail(highlights))
      Described ==
        IF TruthyString(job.description)
          THEN CHOOSE out \in {FromDescription(<<>>, low, 1) :
                                 low \in {ToLowerCase(job.description)}} : TRUE
          ELSE <<>>
  IN FromHighlights(Described, job.highlights)

\* The keywords of the three tiers, in the order of the checks.
ExecutiveKeywords ==
  <<<<"e", "x", "e", "c", "u", "t", "i", "v", "e", " ", "c", "h", "e", "f">>,
    <<"h", "e", "a", "d", " ", "c", "h", "e", "f">>,
    <<"c", "h", "e", "f", " ", "d", "e", " ", "c", "u", "i", "s", "i", "n", "e">>,
    <<"c", "u", "l", "i", "n", "a", "r", "y", " ", "d", "i", "r", "e", "c", "t", "o", "r">>>>

SeniorKeywords ==
  <<<<"s", "e", "n", "i", "o", "r">>,
    <<"s", "r", ".">>,
    <<"l", "e", "a", "d">>,
    <<"s", "o", "u", "s", " ", "c", "h", "e", "f">>>>

EntryKeywords ==
  <<<<"j", "u", "n", "i", "o", "r">>,
    <<"j", "r", ".">>,
    <<"e", "n", "t", "r", "y">>,
    <<"t", "r", "a", "i", "n", "e", "e">>,
    <<"a", "p", "p", "r", "e", "n", "t", "i", "c", "e">>,
    <<"c", "o", "m", "m", "i", "s">>>>

\* title.includes(k1) || title.includes(k2) || ...
IncludesAny(s, keywords) == \E k \in DOMAIN keywords : Includes(s, keywords[k])

\* A calculateExperienceLevel that checks the senior tier first.
calculateExperienceLevelSeniorFirst(job) ==
  IF job.title = Undefined \/ job.description = Undefined THEN "TypeError"
  ELSE IF IncludesAny(ToLowerCase(job.title), SeniorKeywords) THEN "senior"
  ELSE IF IncludesAny(ToLowerCase(job.title), ExecutiveKeywords) THEN "executive"
  ELSE IF IncludesAny(ToLowerCase(job.title), EntryKeywords) THEN "entry"
  ELSE "mid"

\* job.title.toLowerCase() and job.description.toLowerCase() raise a
\* TypeError on a job without that field; the result is read off the title.
calculateExperienceLevel(job) ==
  IF job.title = Undefined \/ job.description = Undefined THEN "TypeError"
  ELSE IF IncludesAny(ToLowerCase(job.title), ExecutiveKeywords) THEN "executive"
  ELSE IF IncludesAny(ToLowerCase(job.title), SeniorKeywords) THEN "senior"
  ELSE IF IncludesAny(ToLowerCase(job.title), EntryKeywords) THEN "entry"
  ELSE "mid"

\* Raw records the extractors are applied to.
Nyc == <<"N", "Y", "C">>

GoodPay == <<"G", "o", "o", "d", " ", "p", "a", "y", ".">>

LunaCookTitle == <<"L", "u", "n", "a", " ", "B", "i", "s", "t", "r", "o",
                   " ", "-", " ", "C", "o", "o", "k">>

JoinLunaText == <<"J", "o", "i", "n", " ", "L", "u", "n", "a", " ", "B", "i",
                  "s", "t", "r", "o", " ", "i", "n", " ", "N", "Y", "C", ".">>

SeniorExecutiveChef == <<"S", "e", "n", "i", "o", "r", " ", "E", "x", "e",
                         "c", "u", "t", "i", "v", "e", " ", "C", "h", "e",
                         "f">>

EntryLevelText == <<"E", "n", "t", "r", "y", " ", "l", "e", "v", "e", "l",
                    ",", " ", "r", "e", "p", "o", "r", "t", "s", " ", "t",
                    "o", " ", "t", "h", "e", " ", "E", "x", "e", "c", "u",
                    "t", "i", "v", "e", " ", "C", "h", "e", "f", ".">>

\* Every way of leaving out or emptying the four fields of a raw record,
\* with a title and a description that a company name can be recovered from.
\* The second group of records tells the sources of the company name apart:
\* the titles 'Line Cook', 'Luna Bistro - Cook' and ' - Cook', with or
\* without a company_name, over the descriptions 'Cook for Nobu.', 'at  .'
\* and 'Good pay.'.
NormalizeInputs ==
  [title : {Undefined, <<>>, LineCook, LunaCookTitle},
   company_name : {Undefined, <<>>, LunaBistro},
   location : {Undefined, <<>>, Nyc},
   description : {Undefined, <<>>, GoodPay, JoinLunaText},
   schedule : {""}, extensions : {<<>>}, job_highlights : {<<>>}]
    \cup [title : {LineCook, LunaCookTitle, <<" ", "-", " ", "C", "o", "o", "k">>},
          company_name : {Undefined, ChartwellsCorp},
          location : {Nyc},
          description : {<<"C", "o", "o", "k", " ", "f", "o", "r", " ", "N", "o", "b", "u", ".">>,
                         <<"a", "t", " ", " ", ".">>, GoodPay},
          schedule : {""}, extensions : {<<>>}, job_highlights : {<<>>}]

\* Titles of every tier, some with keywords of two tiers: 'Line Cook',
\* 'Senior Executive Chef', 'Sr. Line Cook', 'Junior Sous Chef',
\* 'Head Chef Trainee', 'Commis Chef', 'Kitchen Lead'.
LevelTitles ==
  {LineCook, SeniorExecutiveChef,
   <<"S", "r", ".", " ", "L", "i", "n", "e", " ", "C", "o", "o", "k">>,
   <<"J", "u", "n", "i", "o", "r", " ", "S", "o", "u", "s", " ", "C", "h", "e", "f">>,
   <<"H", "e", "a", "d", " ", "C", "h", "e", "f", " ", "T", "r", "a", "i", "n", "e", "e">>,
   <<"C", "o", "m", "m", "i", "s", " ", "C", "h", "e", "f">>,
   <<"K", "i", "t", "c", "h", "e", "n", " ", "L", "e", "a", "d">>}

\* The titles under descriptions with and without a keyword.
LevelInputs ==
  [title : LevelTitles, company_name : {LunaBistro}, location : {Nyc},
   description : {Undefined, GoodPay, EntryLevelText},
   schedule : {""}, extensions : {<<>>}, job_highlights : {<<>>}]

\* The amounts of the salary texts: '18', '22', '50,000.50'
AmountLiterals ==
  {<<"1", "8">>, <<"2", "2">>, <<"5", "0", ",", "0", "0", "0", ".", "5", "0">>}

\* What stands before the amount in the salary texts: nothing or 'Pay: '
SalaryPrefixes == {<<>>, <<"P", "a", "y", ":", " ">>}

\* The text '<prefix>$a - $b per <unit>'; with b empty ' - $b' is left out,
\* with unit empty ' per <unit>' is.
SalaryText(prefix, a, b, unit) ==
  prefix \o <<"$">> \o a
    \o (IF b = <<>> THEN <<>> ELSE <<" ", "-", " ", "$">> \o b)
    \o (IF unit = <<>> THEN <<>> ELSE <<" ", "p", "e", "r", " ">> \o unit)

\* Texts that tell a salary: a first amount, with or without a second one,
\* with or without a period.
SalaryTexts ==
  {SalaryText(p, a, b, SalaryUnits[u]) :
     p \in SalaryPrefixes, a \in AmountLiterals, b \in AmountLiterals \cup {<<>>},
     u \in DOMAIN SalaryUnits}
    \cup {SalaryText(p, a, b, <<>>) :
            p \in SalaryPrefixes, a \in AmountLiterals, b \in AmountLiterals \cup {<<>>}}

\* The salary is told by the description, or by a Compensation highlight
\* next to a description that tells none. In the last group of records the
\* highlights hold '$18 per hour' in a Compensation block, followed by '$22'
\* in the same block, by '$50,000.50' in a second Compensation block, or
\* preceded by '$22' in a Benefits block, or a Compensation block that tells
\* no salary; the description tells '$22 per day' or none.
SalaryInputs ==
  [title : {LineCook}, company_name : {LunaBistro}, location : {Nyc},
   description : SalaryTexts,
   schedule : {""}, extensions : {<<>>}, job_highlights : {<<>>}]
    \cup [title : {LineCook}, company_name : {LunaBistro}, location : {Nyc},
          description : {GoodPay},
          schedule : {""}, extensions : {<<>>},
          job_highlights :
            {<<[title |-> "Compensation", items |-> <<GoodPay, text>>]>> :
               text \in {SalaryText(<<>>, <<"1", "8">>, <<"2", "2">>, SalaryUnits[1]),
                         SalaryText(<<>>, <<"1", "8">>, <<>>, <<>>)}}]
    \cup [title : {LineCook}, company_name : {LunaBistro}, location : {Nyc},
          description : {GoodPay, SalaryText(<<>>, <<"2", "2">>, <<>>, SalaryUnits[5])},
          schedule : {""}, extensions : {<<>>},
          job_highlights :
            {<<[title |-> "Compensation",
                items |-> <<SalaryText(<<>>, <<"1", "8">>, <<>>, SalaryUnits[1]), GoodPay,
                            SalaryText(<<>>, <<"2", "2">>, <<>>, <<>>)>>]>>,
             <<[title |-> "Compensation",
                items |-> <<SalaryText(<<>>, <<"1", "8">>, <<>>, SalaryUnits[1]), GoodPay>>],
               [title |-> "Compensation",
                items |-> <<SalaryText(<<>>, <<"5", "0", ",", "0", "0", "0", ".", "5", "0">>,
                                       <<>>, <<>>), GoodPay>>]>>,
             <<[title |-> "Benefits",
                items |-> <<SalaryText(<<>>, <<"2", "2">>, <<>>, <<>>), GoodPay>>],
               [title |-> "Compensation",
                items |-> <<SalaryText(<<>>, <<"1", "8">>, <<>>, SalaryUnits[1]), GoodPay>>]>>,
             <<[title |-> "Compensation", items |-> <<GoodPay, GoodPay>>]>>}]

\* The records of the skills: the descriptions 'Good pay.' and 'Baking and
\* GRILLING, knife skills.' over no highlights, a Qualifications block
\* ('Baking, Sautéing', 'Food Safety and baking'), a Responsibilities block
\* ('Catering', 'Banquet service') before a Qualifications block ('Knife
\* Skills', 'Plating'), and the Responsibilities block alone.
ExtractInputs ==
  NormalizeInputs \cup LevelInputs \cup SalaryInputs
    \cup [title : {LineCook}, company_name : {LunaBistro}, location : {Nyc},
          description : {GoodPay,
                         <<"B", "a", "k", "i", "n", "g", " ", "a", "n", "d", " ", "G", "R", "I", "L", "L", "I", "N", "G", ",", " ", "k", "n", "i", "f", "e", " ", "s", "k", "i", "l", "l", "s", ".">>},
          schedule : {""}, extensions : {<<>>},
          job_highlights :
            {<<>>,
             <<[title |-> "Qualifications",
                items |-> <<<<"B", "a", "k", "i", "n", "g", ",", " ", "S", "a", "u", "t", "é", "i", "n", "g">>,
                            <<"F", "o", "o", "d", " ", "S", "a", "f", "e", "t", "y", " ", "a", "n", "d", " ", "b", "a", "k", "i", "n", "g">>>>]>>,
             <<[title |-> "Responsibilities",
                items |-> <<<<"C", "a", "t", "e", "r", "i", "n", "g">>,
                            <<"B", "a", "n", "q", "u", "e", "t", " ", "s", "e", "r", "v", "i", "c", "e">>>>],
               [title |-> "Qualifications",
                items |-> <<<<"K", "n", "i", "f", "e", " ", "S", "k", "i", "l", "l", "s">>,
                            <<"P", "l", "a", "t", "i", "n", "g">>>>]>>,
             <<[title |-> "Responsibilities",
                items |-> <<<<"C", "a", "t", "e", "r", "i", "n", "g">>,
                            <<"B", "a", "n", "q", "u", "e", "t", " ", "s", "e", "r", "v", "i", "c", "e">>>>]>>}]

NoRaw ==
  [title |-> Undefined, company_name |-> Undefined, location |-> Undefined,
   description |-> Undefined, schedule |-> "", extensions |-> <<>>, job_highlights |-> <<>>]

InitExtract ==
  /\ xPc = "idle"
  /\ xRaw = NoRaw
  /\ xJob = NormalizeJob(NoRaw)
  /\ xSalaryInfo = InitialSalaryInfo
  /\ xSkills = <<>>
  /\ xExperienceLevel = ""

\* data.jobs.map(job => ...) on one raw record
XNormalize ==
  /\ xPc = "raw"
  /\ xJob' = NormalizeJob(xRaw)
  /\ xPc' = "job"
  /\ UNCHANGED <<xRaw, xSalaryInfo, xSkills, xExperienceLevel>>
  /\ UNCHANGED <<dbVars, searchVars, enrichVars, mainVars>>

\* const salaryInfo = extractSalaryInfo(job)
XSalaryInfo ==
  /\ xPc = "job"
  /\ xSalaryInfo' = extractSalaryInfo(xJob)
  /\ xPc' = "salary"
  /\ UNCHANGED <<xRaw, xJob, xSkills, xExperienceLevel>>
  /\ UNCHANGED <<dbVars, searchVars, enrichVars, mainVars>>

\* const skills = extractSkills(job)
XSkills ==
  /\ xPc = "salary"
  /\ xSkills' = extractSkills(xJob)
  /\ xPc' = "skills"
  /\ UNCHANGED <<xRaw, xJob, xSalaryInfo, xExperienceLevel>>
  /\ UNCHANGED <<dbVars, searchVars, enrichVars, mainVars>>

\* const experienceLevel = calculateExperienceLevel(job)
XExperienceLevel ==
  /\ xPc = "skills"
  /\ xExperienceLevel' = calculateExperienceLevel(xJob)
  /\ xPc' = "level"
  /\ UNCHANGED <<xRaw, xJob, xSalaryInfo, xSkills>>
  /\ UNCHANGED <<dbVars, searchVars, enrichVars, mainVars>>

NextExtract ==
  \/ XNormalize
  \/ XSalaryInfo
  \/ XSkills
  \/ XExperienceLevel

(***************************************************************************)
(* Specifications                                                          *)
(***************************************************************************)
vars == <<dbVars, searchVars, enrichVars, mainVars, extractVars>>

NextDb ==
  \/ \E h \in BOOLEAN : initDatabase(h)
  \/ \E n \in 0..MaxJobs : InsertCall(n)
  \/ \E ok \in BOOLEAN : PoolConnect(ok)
  \/ \E ok \in BOOLEAN : TxBegin(ok)
  \/ \E job \in Jobs, o \in Outcomes : UpsertJob(job, o)
  \/ \E o \in Outcomes : UpsertContact(o)
  \/ \E ok \in BOOLEAN : TxCommit(ok)
  \/ \E ok \in BOOLEAN : TxRollback(ok)

Init == InitDb /\ InitSearch /\ InitEnrich /\ InitMain /\ InitExtract

\* The store alone: the other parts stay in their initial state.
InitStore == Init /\ apiKey = TRUE

SpecDb == InitStore /\ [][NextDb]_vars

\* Search alone. A page fetch always comes back: fetch resolves or rejects.
InitQueries == Init /\ impl = "main"

SpecSearch ==
  /\ InitQueries
  /\ [][NextSearch]_vars
  /\ WF_vars(\E resp \in Responses : FetchPage(resp))

\* processJobsForDatabase alone.
InitProcess == Init /\ impl = "main" /\ apiKey = TRUE

\* Search alone, with a provider that hands out two different continuation
\* tokens and pages of at most one result.
NextTokens ==
  \/ \E m \in 1..MaxPagesBound : StartQuery(m)
  \/ \E resp \in [kind : {"ok", "httpError"}, jobs : SeqsUpTo(RawResults, 1),
                   token : Tokens \cup {"tokB"}] : FetchPage(resp)

SpecTokens == InitProcess /\ [][NextTokens]_vars

\* The steps inside a call; at most one is enabled at a time.
EnrichStep ==
  \/ ForEachJob
  \/ \E url \in WebsiteReturns, dom \in DomainReturns : WebsiteLookup(url, dom)
  \/ \E emails \in ContactReturns : findEmailsWithHunter(emails)
  \/ \E companyEmails \in ContactReturns : findEmailsByCompanyName(companyEmails)
  \/ EnrichDelay
  \/ ReturnProcessedJobs

\* Every await of the loop settles: a collaborator call resolves or rejects,
\* the timer of the delay fires, and the synchronous steps run on.
SpecEnrich == InitProcess /\ [][NextEnrich]_vars /\ WF_vars(EnrichStep)

\* A run of main on an input: every await of the loop settles.
InitRun ==
  /\ InitDb /\ InitSearch /\ InitEnrich /\ MainStart /\ InitExtract
  /\ impl = "main"
  /\ maxPagesPerQuery \in {1, MaxPagesBound}
  /\ fullTimeOnly \in BOOLEAN
  /\ saveToDataset \in BOOLEAN
  /\ DefaultLoggedInputs

SpecMain == InitRun /\ [][NextMain]_vars /\ WF_vars(NextMain)

\* A run of main on an input that sets the exclusion and enrichment toggles.
InitToggles ==
  /\ InitDb /\ InitSearch /\ InitEnrich /\ MainStart /\ InitExtract
  /\ impl = "main"
  /\ apiKey = TRUE
  /\ maxPagesPerQuery = MaxPagesBound
  /\ fullTimeOnly = TRUE
  /\ saveToDataset = TRUE
  /\ deduplicateJobs = TRUE
  /\ excludeFastFood \in BOOLEAN
  /\ excludeRecruiters \in BOOLEAN
  /\ mainIncludeHunterData \in BOOLEAN

SpecToggles == InitToggles /\ [][NextMain]_vars /\ WF_vars(NextMain)

\* The store under an input that sets deduplicateJobs.
InitDedup ==
  /\ InitDb /\ InitSearch /\ InitEnrich /\ MainStart /\ InitExtract
  /\ apiKey = TRUE
  /\ maxPagesPerQuery = 10
  /\ fullTimeOnly = TRUE
  /\ saveToDataset = TRUE
  /\ deduplicateJobs \in BOOLEAN
  /\ excludeFastFood = TRUE
  /\ excludeRecruiters = TRUE
  /\ mainIncludeHunterData = TRUE

SpecDedup == InitDedup /\ [][NextDb]_vars

\* The extractors on every raw record of ExtractInputs.
InitExtractInputs ==
  /\ InitDb /\ InitSearch /\ InitEnrich /\ InitMain
  /\ impl = "main"
  /\ apiKey = TRUE
  /\ xPc = "raw"
  /\ xRaw \in ExtractInputs
  /\ xJob = NormalizeJob(NoRaw)
  /\ xSalaryInfo = InitialSalaryInfo
  /\ xSkills = <<>>
  /\ xExperienceLevel = ""

SpecExtract == InitExtractInputs /\ [][NextExtract]_vars

(***************************************************************************)
(* Claims about the persistence store (checked under SpecDb)               *)
(***************************************************************************)
LinkRows(rows, link) == {r \in rows : r.apply_link = link}

ContactRows(rows, jobId, email) ==
  {c \in rows : c.job_id = jobId /\ c.email = email}

\* No table state holds two rows for one job (title, company, present
\* apply_link) or two contact rows for one (job, email) pair.
OneRowPerJob(t) ==
  /\ \A r1, r2 \in t.jobs :
       (/\ r1.apply_link # NULL
        /\ r1.title = r2.title
        /\ r1.company = r2.company
        /\ r1.apply_link = r2.apply_link) => r1 = r2
  /\ \A c1, c2 \in t.contacts :
       (c1.job_id = c2.job_id /\ c1.email = c2.email) => c1 = c2

\* A job statement that succeeds for a job with a present apply_link leaves
\* exactly one row storing that job; when the job was already stored, the
\* number of job rows and of rows with its apply_link does not change; when no
\* row carried its apply_link, exactly one does afterwards.
UpsertJobIdempotent ==
  \A job \in Jobs :
    (UpsertJob(job, "ok") /\ txState = "open" /\ job.apply_link # NULL) =>
      /\ Cardinality(SameJobRows(tx'.jobs, job)) = 1
      /\ SameJobRows(tx.jobs, job) # {} =>
           /\ Cardinality(tx'.jobs) = Cardinality(tx.jobs)
           /\ Cardinality(LinkRows(tx'.jobs, job.apply_link))
                = Cardinality(LinkRows(tx.jobs, job.apply_link))
      /\ LinkRows(tx.jobs, job.apply_link) = {} =>
           Cardinality(LinkRows(tx'.jobs, job.apply_link)) = 1

\* A contact statement that succeeds leaves exactly one contact row for the
\* (job, email) pair, and adds no row when the pair was already stored.
UpsertContactIdempotent ==
  (UpsertContact("ok") /\ txState = "open") =>
    LET email == curJob.emails[emailIdx] IN
    /\ Cardinality(ContactRows(tx'.contacts, curJobId, email)) = 1
    /\ ContactRows(tx.contacts, curJobId, email) # {} =>
         Cardinality(tx'.contacts) = Cardinality(tx.contacts)

\* C1: upserting the same job (same apply_link, same contact emails) again, in
\* a later call or later in the same batch, adds no job row and no contact
\* row: one job row stores the job and one contact row each (job, email) pair,
\* in the transaction and in the committed tables.
C1_UpsertIdempotent ==
  /\ [](OneRowPerJob(db) /\ OneRowPerJob(tx))
  /\ [][UpsertJobIdempotent /\ UpsertContactIdempotent]_vars

\* A second call has upserted, and committed, a job and contacts that the
\* first call had stored: still one job row and one row per email.
C1_Witness ==
  /\ dPc = "idle"
  /\ calls = 2
  /\ txEnd = "COMMIT"
  /\ reUpserted
  /\ reContact
  /\ Cardinality(db.jobs) = 1
  /\ Cardinality(db.contacts) = 2

\* C2: no two rows of the committed job table carry the same present
\* apply_link.
C2_ApplyLinkUnique ==
  \A r1, r2 \in db.jobs :
    (r1.apply_link # NULL /\ r1.apply_link = r2.apply_link) => r1 = r2

\* The call came back through its COMMIT statement, which did not raise.
ReturnedThroughCommit ==
  /\ dPc = "idle"
  /\ callEnd = "returned"
  /\ txEnd \in {"COMMIT", "ABORTED"}

\* C3: when a job of the batch fails, the jobs written before it in the same
\* call are committed, every job of the batch has been attempted, and the
\* failed jobs are left out of the returned count.
C3_ErrorIsolation ==
  (ReturnedThroughCommit /\ nFailed > 0) =>
    /\ lostWrite => txEnd = "COMMIT"
    /\ remaining = 0
    /\ retVal = batchSize - nFailed

\* C4: the returned number is the number of jobs of the batch whose job row
\* is committed when the call returns, and 0 when the transaction ended in
\* ROLLBACK or the store was not initialized.
C4_ReturnedCount ==
  (dPc = "idle" /\ callEnd = "returned") =>
    retVal = (IF txEnd = "COMMIT" THEN nWritten ELSE 0)

\* The rows of the table that carry this id.
RowsWithId(rows, id) == {r \in rows : r.id = id}

\* The job statement of a job that conflicts with the stored row old leaves
\* one row with old's id: old's date_added, the statement's timestamp as
\* last_updated, the job's values in the other fields; no other row changes.
ConflictUpdates(job, old) ==
  /\ Cardinality(RowsWithId(tx'.jobs, old.id)) = 1
  /\ \A new \in RowsWithId(tx'.jobs, old.id) :
       /\ new.date_added = old.date_added
       /\ new.last_updated = StatementTime
       /\ new.title = job.title
       /\ new.company = job.company
       /\ new.apply_link = job.apply_link
  /\ tx'.jobs \ RowsWithId(tx'.jobs, old.id) = tx.jobs \ {old}

\* C29: on an upsert that conflicts with an existing job row, the row keeps
\* its id and its creation timestamp date_added, last_updated is set anew,
\* and every other mutable field takes the value of the new job.
C29_ConflictKeepsCreation ==
  [][\A job \in Jobs :
       (UpsertJob(job, "ok") /\ txState = "open") =>
         \A old \in ConflictRows(impl, tx.jobs, job) : ConflictUpdates(job, old)]_vars

\* A job statement has updated a row that an earlier statement had inserted:
\* the row holds its first date_added, a later last_updated and a new field
\* value under its first id.
C29_Witness ==
  /\ dPc = "idle"
  /\ txEnd = "COMMIT"
  /\ \E r \in db.jobs :
       /\ r.id = 1
       /\ r.date_added = 1
       /\ r.last_updated = 2
       /\ (r.title = "t2" \/ r.apply_link = "L2")
       /\ Cardinality(db.jobs) = 1

\* C37: in the store keyed by apply_link a job without apply_link never
\* conflicts with a stored row. Each job statement of such a job adds one
\* row under a new id and leaves every stored row as it was, and each of its
\* contact statements adds one contact row; so upserting the same job n
\* times leaves n rows.
C37_LinklessNeverConflicts ==
  [][/\ \A job \in Jobs :
          (/\ impl = "database"
           /\ job.apply_link = NULL
           /\ txState = "open"
           /\ UpsertJob(job, "ok")) =>
            /\ tx.jobs \subseteq tx'.jobs
            /\ Cardinality(tx'.jobs) = Cardinality(tx.jobs) + 1
            /\ \A r \in tx'.jobs \ tx.jobs : r.id = nextJobId /\ r.apply_link = NULL
     /\ (/\ impl = "database"
         /\ dPc = "contacts"
         /\ curJob.apply_link = NULL
         /\ txState = "open"
         /\ UpsertContact("ok")) =>
          /\ tx.contacts \subseteq tx'.contacts
          /\ Cardinality(tx'.contacts) = Cardinality(tx.contacts) + 1
          /\ \A c \in tx'.contacts \ tx.contacts : c.job_id = curJobId]_vars

\* The same job without apply_link has been upserted twice into the store
\* keyed by apply_link: two rows hold it, each with its own contact rows.
C37_Witness ==
  /\ impl = "database"
  /\ dPc = "idle"
  /\ txEnd = "COMMIT"
  /\ \E r1, r2 \in db.jobs :
       /\ r1.id # r2.id
       /\ r1.apply_link = NULL /\ r2.apply_link = NULL
       /\ r1.title = r2.title /\ r1.company = r2.company
       /\ \A r \in {r1, r2} :
            {c.email : c \in {d \in db.contacts : d.job_id = r.id}} = {"e1", "e2"}

\* How often the last call did ev with its client.
TimesLogged(ev) == Cardinality({k \in DOMAIN txLog : txLog[k] = ev})

\* A call that acquired a client has returned or raised.
CallWithClientEnded == dPc = "idle" /\ txLog # <<>>

\* C33, as stated: every call that acquires a client issues BEGIN once and
\* then exactly one of COMMIT or ROLLBACK before it ends, and releases the
\* client exactly once, last of all; it ends with no transaction open.
C33_TransactionBracket ==
  CallWithClientEnded =>
    /\ txLog[1] = "connect"
    /\ txLog[2] = "BEGIN"
    /\ TimesLogged("BEGIN") = 1
    /\ TimesLogged("COMMIT") + TimesLogged("ROLLBACK") = 1
    /\ TimesLogged("release") = 1
    /\ txLog[Len(txLog)] = "release"
    /\ txState = "none"

\* C33, amended: every call that acquires a client issues BEGIN once; when
\* BEGIN raises it issues ROLLBACK and no COMMIT; otherwise it issues COMMIT
\* once, whichever job or contact statement failed before, and ROLLBACK after
\* it only when that COMMIT raised. The client is released exactly once,
\* after the last statement, and the call ends with no transaction open.
C33_BracketAmended ==
  /\ CallWithClientEnded =>
       /\ txLog \in {<<"connect", "BEGIN", "COMMIT", "release">>,
                     <<"connect", "BEGIN", "ROLLBACK", "release">>,
                     <<"connect", "BEGIN", "COMMIT", "ROLLBACK", "release">>}
       /\ (nWritten + nFailed > 0 \/ txEnd \in {"COMMIT", "ABORTED"}) => txLog[3] = "COMMIT"
       /\ txEnd \in {"COMMIT", "ABORTED"} <=> TimesLogged("ROLLBACK") = 0
       /\ txState = "none"
  /\ dPc \notin {"idle", "connect"} => /\ txLog[1] = "connect"
                                       /\ TimesLogged("release") = 0

\* A call in which a job statement failed and COMMIT raised has ended: it
\* issued COMMIT and then ROLLBACK, and released its client once.
C33_Witness ==
  /\ dPc = "idle"
  /\ nFailed > 0
  /\ nWritten > 0
  /\ txLog = <<"connect", "BEGIN", "COMMIT", "ROLLBACK", "release">>

(***************************************************************************)
(* Claims about searchAllJobs (checked under SpecSearch)                   *)
(***************************************************************************)
\* The normalized results of a list of provider pages, in page order.
RECURSIVE FlattenPages(_)
FlattenPages(ps) ==
  IF ps = <<>> THEN <<>>
  ELSE FlattenPages(SubSeq(ps, 1, Len(ps) - 1)) \o MapNormalize(ps[Len(ps)])

\* The call never makes more than maxPages fetches.
PageBound == currentPage <= maxPages

\* A finished call made at least one fetch and stopped for one of the three
\* reasons: an empty page, no continuation token, the page ceiling.
StopReason ==
  sPc = "done" =>
    /\ currentPage >= 1
    /\ \/ pages[currentPage] = <<>>
       \/ nextPageToken = NULL
       \/ currentPage = maxPages

\* A call that goes on has met none of the three reasons yet.
NoEarlierStop ==
  (sPc = "fetch" /\ currentPage >= 1) =>
    /\ pages[currentPage] # <<>>
    /\ nextPageToken # NULL
    /\ currentPage < maxPages

\* C5: for maxPages >= 1 and every provider behaviour, searchAllJobs ends
\* after at least 1 and at most maxPages fetches, at the first of: an empty
\* page, a page without continuation token, the page counter at maxPages.
C5_Terminates ==
  /\ [](Len(pages) = currentPage /\ PageBound /\ StopReason /\ NoEarlierStop)
  /\ (sPc = "fetch") ~> (sPc = "done")

\* The provider gave a page with a token every time; the ceiling stopped it.
C5_Witness ==
  /\ sPc = "done"
  /\ maxPages >= 2
  /\ currentPage = maxPages
  /\ lastKind = "page"
  /\ nextPageToken # NULL

\* C6: no page is fetched after a page with zero results, whether or not
\* the response carried a continuation token.
C6_EmptyPageStops ==
  /\ \A k \in 1..(Len(pages) - 1) : pages[k] # <<>>
  /\ lastKind = "empty" => sPc = "done"

\* The second page was empty and carried a token, below the ceiling.
C6_Witness ==
  /\ sPc = "done"
  /\ lastKind = "empty"
  /\ lastHadToken
  /\ currentPage = 2
  /\ currentPage < maxPages

\* C7: a provider failure on a page (no credential, non-success response,
\* rejected fetch) ends the pagination of that query, the results of the
\* pages before it are returned, no exception leaves searchAllJobs, and the
\* next query of the run can start.
C7_ProviderFailure ==
  /\ runState = "running"
  /\ sPc # "threw"
  /\ lastKind \in FailureKinds =>
       /\ sPc = "done"
       /\ allJobs = FlattenPages(SubSeq(pages, 1, Len(pages) - 1))
       /\ qIdx < MaxQueries => ENABLED StartQuery(1)

\* The fetch of page 2 was rejected, the results of page 1 are returned, and
\* this query ran after an earlier query of the run had met a failure too.
C7_Witness ==
  /\ sPc = "done"
  /\ lastKind = "networkError"
  /\ currentPage = 2
  /\ Len(allJobs) >= 1
  /\ qIdx = 2
  /\ failures = 2

\* C8: the list returned is the concatenation of the results of the fetched
\* pages in fetch order, each page in its own order.
C8_Concatenation == allJobs = FlattenPages(pages)

\* Two pages, the first with two different results.
C8_Witness ==
  /\ sPc = "done"
  /\ Len(pages) = 2
  /\ Len(pages[1]) = 2
  /\ pages[1][1] # pages[1][2]
  /\ Len(pages[2]) >= 1
  /\ Len(allJobs) >= 3

\* The positions of the fetches in the trace of the call.
FetchesAt == {k \in DOMAIN pageTrace : pageTrace[k] = "fetch"}

DelaysAt == {k \in DOMAIN pageTrace : pageTrace[k] = "delay"}

\* C30: in searchAllJobs the inter-page delay is taken before every page
\* fetch other than the first and never after the final fetch. The trace of
\* a call starts with a fetch, a delay follows a fetch and only a fetch, and
\* while the call runs every fetch made is followed by its delay; once it
\* has returned the trace ends with a fetch: n fetches, n - 1 delays.
C30_InterPageDelay ==
  sPc \in {"fetch", "done"} =>
    /\ \A k \in DOMAIN pageTrace : (pageTrace[k] = "fetch") = (k % 2 = 1)
    /\ Cardinality(FetchesAt) = currentPage
    /\ sPc = "fetch" => Cardinality(DelaysAt) = Cardinality(FetchesAt)
    /\ sPc = "done" => /\ pageTrace[Len(pageTrace)] = "fetch"
                       /\ Cardinality(DelaysAt) = Cardinality(FetchesAt) - 1

\* A call has returned after three fetches with two delays between them.
C30_Witness ==
  /\ sPc = "done"
  /\ pageTrace = <<"fetch", "delay", "fetch", "delay", "fetch">>

\* C31: searchAllJobs keeps no state across calls and chains tokens
\* faithfully. Every call of a run, the first and the later ones alike,
\* starts without a token and its first fetch carries none; every later
\* fetch carries exactly the token the page fetched just before it, in the
\* same call, returned.
C31_TokenChain ==
  /\ Len(fetchLog) = currentPage
  /\ (sPc = "fetch" /\ fetchLog = <<>>) => nextPageToken = NULL
  /\ fetchLog # <<>> => fetchLog[1].sent = NULL
  /\ \A k \in 2..Len(fetchLog) :
       /\ fetchLog[k - 1].returned # NULL
       /\ fetchLog[k].sent = fetchLog[k - 1].returned

\* The second call of a run has fetched three pages: the second fetch
\* carried tokA and the third tokB.
C31_Witness ==
  /\ qIdx = 2
  /\ Len(fetchLog) = 3
  /\ fetchLog[1].returned = "tokA"
  /\ fetchLog[2] = [sent |-> "tokA", returned |-> "tokB"]
  /\ fetchLog[3].sent = "tokB"

(***************************************************************************)
(* Claims about the enrichment chain (checked under SpecEnrich)            *)
(***************************************************************************)
\* The calls of fn made for job j, as positions in lookups.
CallsOf(j, fn) == {k \in DOMAIN lookups : lookups[k].job = j /\ lookups[k].fn = fn}

\* A website lookup or a domain extraction that returned a non-empty string.
FoundString(k) == lookups[k].ret.kind = "value" /\ lookups[k].ret.str # ""

\* A contact lookup that returned at least one contact.
FoundContacts(k) == lookups[k].ret.kind = "value" /\ lookups[k].ret.emails # <<>>

RaisedFor(j) == \E k \in DOMAIN lookups : lookups[k].job = j /\ lookups[k].ret.kind = "raise"

\* For job j a website was found and the domain extraction returned without
\* a domain.
NoDomainFor(j) ==
  /\ \E w \in CallsOf(j, "getWebsiteUrlFromSearchAPI") : FoundString(w)
  /\ \E d \in CallsOf(j, "getDomainFromUrl") :
       lookups[d].ret.kind # "raise" /\ ~FoundString(d)

\* C9: findEmailsWithHunter (byDomain) is called for a job only after the
\* website lookup of that job found a URL and a domain was derived from it;
\* a job whose URL gave no domain is emitted with no byDomain call and exactly
\* one findEmailsByCompanyName (byCompanyName) call.
C9_ByDomainNeedsDomain ==
  /\ \A k \in DOMAIN lookups :
       lookups[k].fn = "findEmailsWithHunter" =>
         \E w, d \in 1..(k - 1) :
           /\ w < d
           /\ w \in CallsOf(lookups[k].job, "getWebsiteUrlFromSearchAPI") /\ FoundString(w)
           /\ d \in CallsOf(lookups[k].job, "getDomainFromUrl") /\ FoundString(d)
  /\ \A p \in DOMAIN keptIdx :
       NoDomainFor(keptIdx[p]) =>
         /\ CallsOf(keptIdx[p], "findEmailsWithHunter") = {}
         /\ Cardinality(CallsOf(keptIdx[p], "findEmailsByCompanyName")) = 1

\* A returned call with a job that had a website without a domain, and
\* another job that went through byDomain.
C9_Witness ==
  /\ ePc = "done"
  /\ Len(keptIdx) = 2
  /\ NoDomainFor(keptIdx[1])
  /\ processedJobs[1].company_website # NULL
  /\ processedJobs[1].company_domain = NULL
  /\ CallsOf(keptIdx[2], "findEmailsWithHunter") # {}

\* C10: for an emitted job of an enriching call none of whose lookups
\* raised: when byDomain returned at least one contact, byCompanyName is not
\* called and the job's contacts are the byDomain result; otherwise (byDomain
\* returned none, no domain, or no website) byCompanyName is called exactly
\* once.
C10_ShortCircuit ==
  \A p \in DOMAIN keptIdx :
    LET j == keptIdx[p]
        hits == {k \in CallsOf(j, "findEmailsWithHunter") : FoundContacts(k)}
    IN (includeHunterData /\ ~RaisedFor(j)) =>
         IF hits # {}
           THEN /\ CallsOf(j, "findEmailsByCompanyName") = {}
                /\ \A k \in hits : processedJobs[p].emails = lookups[k].ret.emails
           ELSE Cardinality(CallsOf(j, "findEmailsByCompanyName")) = 1

\* A returned call, no lookup raised: the first job took its contacts from
\* byDomain, the second fell back after byDomain returned none.
C10_Witness ==
  /\ ePc = "done"
  /\ Len(keptIdx) = 2
  /\ \A k \in DOMAIN lookups : lookups[k].ret.kind # "raise"
  /\ \E k \in CallsOf(keptIdx[1], "findEmailsWithHunter") : FoundContacts(k)
  /\ Len(processedJobs[1].emails) = 2
  /\ \E k \in CallsOf(keptIdx[2], "findEmailsWithHunter") : ~FoundContacts(k)
  /\ \E k \in CallsOf(keptIdx[2], "findEmailsByCompanyName") : FoundContacts(k)
  /\ Len(processedJobs[2].emails) = 1

Range(s) == {s[k] : k \in DOMAIN s}

\* C11: a lookup that raises for a job never aborts processJobsForDatabase:
\* the error does not leave the function, the job it was raised for is in the
\* output, and a call that returns has taken every job of its list and
\* emitted every job it did not exclude.
C11_RaiseNeverAborts ==
  /\ ePc # "threw"
  /\ \A k \in DOMAIN lookups :
       lookups[k].ret.kind = "raise" => lookups[k].job \in Range(keptIdx)
  /\ ePc = "done" =>
       /\ eIdx = Len(eJobs)
       /\ \A j \in DOMAIN eJobs :
            exclusionChecks[j].isExcluded \/ j \in Range(keptIdx)

\* A returned call whose first job met a raising website lookup and whose
\* second job was then enriched with contacts.
C11_Witness ==
  /\ ePc = "done"
  /\ Len(keptIdx) = 2
  /\ \E k \in CallsOf(keptIdx[1], "getWebsiteUrlFromSearchAPI") : lookups[k].ret.kind = "raise"
  /\ ~RaisedFor(keptIdx[2])
  /\ processedJobs[2].emails # <<>>

\* C12: when the website lookup or byDomain raises for a job, the job is
\* emitted after exactly one byCompanyName call.
C12_RaiseFallsBack ==
  \A p \in DOMAIN keptIdx :
    LET j == keptIdx[p] IN
    (\E k \in CallsOf(j, "getWebsiteUrlFromSearchAPI") \cup CallsOf(j, "findEmailsWithHunter") :
       lookups[k].ret.kind = "raise")
      => Cardinality(CallsOf(j, "findEmailsByCompanyName")) = 1

\* C13: in a call with includeHunterData = false no collaborator is called,
\* no delay is taken, and every emitted job has company_website = null,
\* company_domain = null and no contacts.
C13_DisabledPassthrough ==
  ~includeHunterData =>
    /\ lookups = <<>>
    /\ delays = 0
    /\ \A p \in DOMAIN processedJobs :
         /\ processedJobs[p].company_website = NULL
         /\ processedJobs[p].company_domain = NULL
         /\ processedJobs[p].emails = <<>>

\* A returned call without enrichment that emitted two jobs.
C13_Witness ==
  /\ ePc = "done"
  /\ ~includeHunterData
  /\ Len(processedJobs) = 2
  /\ keptIdx = <<1, 2>>

\* C32: with enrichment enabled the inter-job delay is taken after every
\* enrichment attempt, whatever its lookups gave or raised: whenever the loop
\* is between two jobs or has ended, as many delays were taken as jobs were
\* enriched and pushed.
C32_DelayAfterEachAttempt ==
  (includeHunterData /\ ePc \in {"loop", "done"}) => delays = Len(processedJobs)

\* C38: with enrichment enabled every kept job causes exactly one website
\* lookup, at most one byDomain call and at most one byCompanyName call, in
\* that order, and the calls of one job are all made before the first call
\* of the next one: the jobs are enriched one at a time, in list order.
C38_OneJobAtATime ==
  includeHunterData =>
    /\ \A p \in DOMAIN keptIdx :
         LET w == CallsOf(keptIdx[p], "getWebsiteUrlFromSearchAPI")
             d == CallsOf(keptIdx[p], "findEmailsWithHunter")
             n == CallsOf(keptIdx[p], "findEmailsByCompanyName")
         IN /\ Cardinality(w) = 1
            /\ Cardinality(d) <= 1
            /\ Cardinality(n) <= 1
            /\ \A a \in w, b \in d \cup n : a < b
            /\ \A a \in d, b \in n : a < b
    /\ \A k, l \in DOMAIN lookups : k < l => lookups[k].job <= lookups[l].job
    /\ \A k \in DOMAIN lookups :
         /\ lookups[k].job <= eIdx
         /\ ~exclusionChecks[lookups[k].job].isExcluded
         /\ lookups[k].job < eIdx => lookups[k].job \in Range(keptIdx)

\* A returned call of two kept jobs: the first went through the website
\* lookup, byDomain and byCompanyName, the second through its own calls
\* after them.
C38_Witness ==
  /\ ePc = "done"
  /\ includeHunterData
  /\ Len(keptIdx) = 2
  /\ CallsOf(keptIdx[1], "findEmailsWithHunter") # {}
  /\ CallsOf(keptIdx[1], "findEmailsByCompanyName") # {}
  /\ CallsOf(keptIdx[2], "getWebsiteUrlFromSearchAPI") # {}
  /\ CallsOf(keptIdx[2], "findEmailsByCompanyName") # {}

\* What the call for job j with function fn returned when it found a
\* non-empty string, NULL otherwise.
StringFoundBy(j, fn) ==
  IF \E k \in CallsOf(j, fn) : FoundString(k)
    THEN lookups[CHOOSE k \in CallsOf(j, fn) : FoundString(k)].ret.str
    ELSE NULL

\* C39: when a lookup raises after earlier steps of the chain succeeded, the
\* fields already set are kept. The job a lookup raised for is emitted with
\* the company_website the website lookup found and the company_domain
\* derived from it, null where none was found, and with no contacts: the
\* error handler resets nothing.
C39_RaiseKeepsFields ==
  \A p \in DOMAIN keptIdx :
    RaisedFor(keptIdx[p]) =>
      /\ processedJobs[p].company_website =
           StringFoundBy(keptIdx[p], "getWebsiteUrlFromSearchAPI")
      /\ processedJobs[p].company_domain = StringFoundBy(keptIdx[p], "getDomainFromUrl")
      /\ processedJobs[p].emails = <<>>

\* A job whose byDomain call raised, after the website and the domain were
\* found, has been emitted with both and without contacts.
C39_Witness ==
  /\ ePc = "done"
  /\ \E p \in DOMAIN keptIdx :
       /\ \E k \in CallsOf(keptIdx[p], "findEmailsWithHunter") : lookups[k].ret.kind = "raise"
       /\ processedJobs[p].company_website # NULL
       /\ processedJobs[p].company_domain # NULL
       /\ processedJobs[p].emails = <<>>

(***************************************************************************)
(* Claims about shouldExcludeCompany, as processJobsForDatabase applies it *)
(* (checked under SpecEnrich)                                              *)
(***************************************************************************)
\* The company names the model's calls and runs hand in.
CompanyNames == ClassifyCompanies \cup EnrichCompanies

\* The lower-cased name contains an entry of the excluded-organizations list.
ContainsExcludedOrgName(company) ==
  \E k \in DOMAIN EXCLUDED_COMPANIES : Includes(ToLowerCase(company), EXCLUDED_COMPANIES[k])

\* The lower-cased name n equals brand b, holds " b ", starts with "b " or
\* ends with " b".
TokenBounded(n, b) ==
  \/ n = b
  \/ Includes(n, <<" ">> \o b \o <<" ">>)
  \/ StartsWith(n, b \o <<" ">>)
  \/ EndsWith(n, <<" ">> \o b)

IsFastFoodCompanyName(company) ==
  \E k \in DOMAIN FAST_FOOD_RESTAURANTS :
    TokenBounded(ToLowerCase(company), FAST_FOOD_RESTAURANTS[k])

\* The two tests, tabulated for the names of the model.
ExcludedOrgNames == {company \in CompanyNames : ContainsExcludedOrgName(company)}

FastFoodNames == {company \in CompanyNames : IsFastFoodCompanyName(company)}

\* Job j of the call has a company name with an excluded organization in it.
ContainsExcludedOrg(j) ==
  IF eJobs[j].company \in CompanyNames
    THEN eJobs[j].company \in ExcludedOrgNames
    ELSE ContainsExcludedOrgName(eJobs[j].company)

\* Job j of the call has a company name token-bounded by a fast-food brand.
IsFastFoodName(j) ==
  IF eJobs[j].company \in CompanyNames
    THEN eJobs[j].company \in FastFoodNames
    ELSE IsFastFoodCompanyName(eJobs[j].company)

\* C14: every job whose lower-cased company name contains an entry of the
\* excluded-organizations list is classified excluded_company, also when the
\* name satisfies the fast-food rule.
C14_ExcludedOrgWins ==
  \A j \in DOMAIN exclusionChecks :
    ContainsExcludedOrg(j) =>
      /\ exclusionChecks[j].isExcluded
      /\ exclusionChecks[j].reason = "excluded_company"

\* A call that classified "Chartwells Corp" and then "KFC Washington", a name
\* both lists match.
C14_Witness ==
  /\ ePc = "done"
  /\ Len(exclusionChecks) = 2
  /\ eJobs[1].company = ChartwellsCorp
  /\ eJobs[2].company = KfcWashington
  /\ IsFastFoodName(2)
  /\ exclusionChecks[2].reason = "excluded_company"
  /\ excludedByCompany = 2

\* C15: a job whose company name contains no excluded organization is
\* classified fast_food exactly when the name is token-bounded by a brand of
\* the fast-food list.
C15_FastFoodTokenRule ==
  \A j \in DOMAIN exclusionChecks :
    ~ContainsExcludedOrg(j) =>
      ((exclusionChecks[j].isExcluded /\ exclusionChecks[j].reason = "fast_food")
         <=> IsFastFoodName(j))

\* A call that classified "Subways", where the brand is part of a longer
\* word, as kept and "Airport KFC" as fast food.
C15_Witness ==
  /\ ePc = "done"
  /\ Len(exclusionChecks) = 2
  /\ eJobs[1].company = Subways
  /\ ~exclusionChecks[1].isExcluded
  /\ eJobs[2].company = AirportKfc
  /\ exclusionChecks[2].reason = "fast_food"
  /\ excludedByFastFood = 1

\* C16: "Uncle McDonald's Diner" is classified not excluded and
\* "McDonald's Express" is classified fast_food.
C16_UncleMcDonaldsKept ==
  \A j \in DOMAIN exclusionChecks :
    /\ eJobs[j].company = UncleMcDonaldsDiner => ~exclusionChecks[j].isExcluded
    /\ eJobs[j].company = McDonaldsExpress =>
         exclusionChecks[j].isExcluded /\ exclusionChecks[j].reason = "fast_food"

(***************************************************************************)
(* Claims about what processJobsForDatabase keeps and counts (checked      *)
(* under SpecEnrich)                                                       *)
(***************************************************************************)
\* The jobs of the call that no denylist matches.
NotDenylisted == {j \in DOMAIN eJobs : ~(ContainsExcludedOrg(j) \/ IsFastFoodName(j))}

\* The jobs of the call that were classified with the given reason.
ClassifiedAs(reason) ==
  {j \in DOMAIN exclusionChecks :
     exclusionChecks[j].isExcluded /\ exclusionChecks[j].reason = reason}

\* C17: a job whose company is "Unknown Company" or the empty string is never
\* excluded; the output lists input jobs in input order, each at most once;
\* and a call that has returned has emitted exactly the jobs no denylist
\* matches.
C17_OnlyDenylistDrops ==
  /\ \A j \in DOMAIN exclusionChecks :
       eJobs[j].company \in {UnknownCompany, <<>>} => ~exclusionChecks[j].isExcluded
  /\ Len(processedJobs) = Len(keptIdx)
  /\ \A p \in DOMAIN keptIdx :
       /\ keptIdx[p] \in DOMAIN eJobs
       /\ processedJobs[p].title = eJobs[keptIdx[p]].title
       /\ processedJobs[p].company = eJobs[keptIdx[p]].company
       /\ \A q \in DOMAIN keptIdx : p < q => keptIdx[p] < keptIdx[q]
  /\ ePc = "done" => Range(keptIdx) = NotDenylisted

\* A returned call that was handed a job of "Unknown Company" and a job with
\* an empty company name and emitted both, in that order.
C17_Witness ==
  /\ ePc = "done"
  /\ Len(eJobs) = 2
  /\ eJobs[1].company = UnknownCompany
  /\ eJobs[2].company = <<>>
  /\ processedJobs[1].company = UnknownCompany
  /\ processedJobs[2].company = <<>>

\* C19: each counter equals the number of jobs classified with its reason;
\* when the call returns, excludedByCompany + excludedByFastFood + the number
\* of jobs returned equals the number of jobs handed in, and the call has
\* logged these counters.
C19_CountersPartition ==
  /\ excludedByCompany = Cardinality(ClassifiedAs("excluded_company"))
  /\ excludedByFastFood = Cardinality(ClassifiedAs("fast_food"))
  /\ ePc = "done" =>
       /\ excludedByCompany + excludedByFastFood + Len(processedJobs) = Len(eJobs)
       /\ report = [logged |-> TRUE, excludedCount |-> excludedCount,
                    excludedByCompany |-> excludedByCompany,
                    excludedByFastFood |-> excludedByFastFood,
                    returned |-> Len(processedJobs)]

\* A returned call that counted one fast-food job and returned the other
\* job after enriching it.
C19_Witness ==
  /\ ePc = "done"
  /\ includeHunterData
  /\ Len(eJobs) = 2
  /\ report.logged
  /\ report.excludedByFastFood = 1
  /\ report.excludedByCompany = 0
  /\ report.returned = 1
  /\ lookups # <<>>

(***************************************************************************)
(* Claims about a run of main (checked under SpecMain)                     *)
(***************************************************************************)
\* shouldExcludeCompany, tabulated for the names of the model.
ExclusionOf == [company \in CompanyNames |-> shouldExcludeCompany(company)]

\* shouldExcludeCompany excludes the company of this job.
ExcludedJob(job) ==
  IF job.company \in CompanyNames
    THEN ExclusionOf[job.company].isExcluded
    ELSE shouldExcludeCompany(job.company).isExcluded

\* C18: no collaborator is called for a job whose verdict is excluded, and no
\* job with an excluded company is in the list processJobsForDatabase
\* builds and returns, among the items pushed to the dataset, or in a batch
\* handed to insertJobsIntoDatabase.
C18_ExcludedDroppedEarly ==
  /\ \A k \in DOMAIN lookups :
       /\ lookups[k].job \in DOMAIN exclusionChecks
       /\ ~exclusionChecks[lookups[k].job].isExcluded
  /\ \A p \in DOMAIN processedJobs :
       /\ ~exclusionChecks[keptIdx[p]].isExcluded
       /\ ~ExcludedJob(processedJobs[p])
  /\ \A d \in DOMAIN dataset : ~ExcludedJob(dataset[d])
  /\ \A b \in DOMAIN dbBatches : \A p \in DOMAIN dbBatches[b] : ~ExcludedJob(dbBatches[b][p])

\* A query that found a job of an excluded organization and a job of a kept
\* company: the kept job was enriched, pushed to the dataset and handed to
\* the database, the other one was not.
C18_Witness ==
  /\ mPc = "query"
  /\ Len(eJobs) = 2
  /\ exclusionChecks[1].isExcluded
  /\ exclusionChecks[1].reason = "excluded_company"
  /\ ~exclusionChecks[2].isExcluded
  /\ \E k \in DOMAIN lookups : lookups[k].job = 2
  /\ Len(dataset) = 1
  /\ dbBatches = <<processedJobs>>
  /\ Len(processedJobs) = 1

\* The raw result says full-time in its schedule or in an extension.
SaysFullTime(raw) ==
  \/ raw.schedule = "Full-time"
  \/ \E k \in DOMAIN raw.extensions : Includes(raw.extensions[k], FullTimeText)

\* The query whose processJobsForDatabase call has just returned was run with
\* full-time-only on and got two pages of one result each, the second page
\* without continuation token; the result of page s is of "Subway", the other
\* one is of "Luna Bistro" with schedule "Full-time".
SubwayLunaScenario(s) ==
  /\ mPc = "process"
  /\ ePc = "done"
  /\ fullTimeOnly
  /\ Len(pages) = 2
  /\ Len(pages[1]) = 1
  /\ Len(pages[2]) = 1
  /\ ~lastHadToken
  /\ pages[s][1].company_name = SubwayName
  /\ pages[3 - s][1].company_name = LunaBistro
  /\ pages[3 - s][1].schedule = "Full-time"

\* C20 as stated: in the scenario, whatever the schedule of the "Subway"
\* result, the call reports 1 job returned and excludedByFastFood = 1.
C20_Scenario ==
  \A s \in 1..2 :
    SubwayLunaScenario(s) =>
      /\ report.returned = 1
      /\ report.excludedByFastFood = 1

\* C20, amended: in the scenario, when the "Subway" result says full-time too,
\* the call reports 1 job returned, which is the "Luna Bistro" job, and
\* excludedByFastFood = 1.
C20_ScenarioBothFullTime ==
  \A s \in 1..2 :
    (SubwayLunaScenario(s) /\ SaysFullTime(pages[s][1])) =>
      /\ report.returned = 1
      /\ report.excludedByFastFood = 1
      /\ report.excludedByCompany = 0
      /\ Len(processedJobs) = 1
      /\ processedJobs[1].company = LunaBistro

\* The scenario with "Subway" on page 1: both results passed the schedule
\* filter, and the call reported one job kept and one fast-food exclusion.
C20_Witness ==
  /\ SubwayLunaScenario(1)
  /\ SaysFullTime(pages[1][1])
  /\ Len(jobsToProcess) = 2
  /\ totalJobsFound = 2
  /\ report.logged
  /\ report.returned = 1
  /\ report.excludedByFastFood = 1

\* C21: the jobs handed to classification are, with fullTimeOnly, exactly the
\* fetched jobs whose schedule is "Full-time" or one of whose extensions
\* contains "Full-time", in fetch order, and without fullTimeOnly all fetched
\* jobs; processJobsForDatabase classifies every job it is handed.
C21_ScheduleFilter ==
  mPc = "process" =>
    /\ jobsToProcess = IF fullTimeOnly THEN SelectSeq(allJobs, SaysFullTime) ELSE allJobs
    /\ ePc = "done" =>
         /\ eJobs = jobsToProcess
         /\ Len(exclusionChecks) = Len(eJobs)

\* A query with fullTimeOnly that fetched a part-time job and a job whose
\* extension says full-time: only the second one was classified.
C21_Witness ==
  /\ mPc = "process"
  /\ ePc = "done"
  /\ fullTimeOnly
  /\ Len(allJobs) = 2
  /\ allJobs[1].schedule = "Part-time"
  /\ allJobs[2].schedule = "Unknown"
  /\ allJobs[2].extensions = <<FullTimeText>>
  /\ eJobs = <<allJobs[2]>>
  /\ Len(exclusionChecks) = 1

\* C24: whatever the collaborators do, the run eventually is through every
\* query of the list and logs its totals, without an exception having left
\* the loop.
C24_RunCompletes ==
  <>(mPc = "end" /\ qIdx = MaxQueries /\ runState = "running")

\* The last Len(s) items of the dataset are s.
DatasetEndsWith(s) ==
  /\ Len(s) <= Len(dataset)
  /\ SubSeq(dataset, Len(dataset) - Len(s) + 1, Len(dataset)) = s

\* C25: when main reaches the persistence step of a query, the jobs of the
\* query are counted and, with saveToDataset, pushed to the dataset; the step
\* with initDatabase returning false hands no batch to
\* insertJobsIntoDatabase, changes neither the dataset nor the totals, and
\* leaves main running at the top of its loop, where the next query of the
\* list is searched.
C25_OnlyPersistenceSkipped ==
  /\ [](mPc = "persist" =>
          /\ runState = "running"
          /\ saveToDataset =>
               /\ DatasetEndsWith(processedJobs)
               /\ totalJobsSaved = Len(dataset)
               /\ totalJobsProcessed = Len(dataset))
  /\ [][MainPersist(FALSE) =>
          /\ dbBatches' = dbBatches
          /\ dataset' = dataset
          /\ totalJobsFound' = totalJobsFound
          /\ totalJobsProcessed' = totalJobsProcessed
          /\ totalJobsSaved' = totalJobsSaved
          /\ runState' = "running"
          /\ mPc' = "query"
          /\ sPc' = "idle"]_vars

\* The second query of a run is being processed after the first one pushed
\* its job to the dataset and found no database.
C25_Witness ==
  /\ qIdx = 2
  /\ mPc = "process"
  /\ ePc = "done"
  /\ runState = "running"
  /\ dbBatches = <<>>
  /\ Len(dataset) = 1
  /\ totalJobsSaved = 1
  /\ totalJobsFound = 2

(***************************************************************************)
(* Claims about the toggles of the input (checked under SpecToggles)       *)
(***************************************************************************)
\* C22: in a run with excludeFastFood = false no job is counted as dropped
\* for fast_food, in a run with excludeRecruiters = false none is counted as
\* dropped for excluded_company, and in a run with includeHunterData = false
\* no collaborator is called.
C22_TogglesGovern ==
  /\ ~excludeFastFood => excludedByFastFood = 0
  /\ ~excludeRecruiters => excludedByCompany = 0
  /\ ~mainIncludeHunterData => lookups = <<>>

(***************************************************************************)
(* Claims about the deduplication toggle (checked under SpecDedup)         *)
(***************************************************************************)
\* C23: a job statement that succeeds for a job whose apply_link is carried
\* by a stored row of another job leaves the job table unchanged when
\* deduplicateJobs is true (the conflicting job is skipped), and with
\* deduplicateJobs false updates the row in place: no row is added and a row
\* stores the new job.
C23_DedupGoverns ==
  [][\A job \in Jobs :
       (/\ UpsertJob(job, "ok")
        /\ txState = "open"
        /\ job.apply_link # NULL
        /\ LinkRows(tx.jobs, job.apply_link) # {}
        /\ SameJobRows(tx.jobs, job) = {})
         => IF deduplicateJobs
              THEN tx'.jobs = tx.jobs
              ELSE /\ Cardinality(tx'.jobs) = Cardinality(tx.jobs)
                   /\ SameJobRows(tx'.jobs, job) # {}]_vars


(***************************************************************************)
(* Claims about normalization and the field extractors (checked under      *)
(* SpecExtract)                                                            *)
(***************************************************************************)

\* The company name a raw record of ExtractInputs without company_name
\* yields: the text before ' - ' of the title, else the name after 'Join' of
\* the description, else nothing.
ExpectedRecovery(raw) ==
  IF raw.title = LunaCookTitle THEN LunaBistro
  ELSE IF raw.description = JoinLunaText THEN LunaBistro
  ELSE IF raw.description = <<"C", "o", "o", "k", " ", "f", "o", "r", " ", "N", "o", "b", "u", ".">>
    THEN <<"N", "o", "b", "u">>
  ELSE <<>>

\* The field of the canonical job is the raw value when that is a non-empty
\* string and the sentinel otherwise.
ValueOrSentinel(field, raw, sentinel) ==
  /\ TruthyString(field)
  /\ field = IF TruthyString(raw) THEN raw ELSE sentinel

\* C26: normalization is total. Whatever subset of title, company_name,
\* location and description a raw record lacks or has empty, searchJobs
\* yields a job whose title, company, location and description are non-empty
\* strings: the real value where there is one, otherwise 'Unknown Title',
\* 'Unknown Company', 'Unknown Location' and 'No description available'.
C26_NormalizationTotal ==
  xPc \in {"job", "salary", "skills", "level"} =>
    /\ ValueOrSentinel(xJob.title, xRaw.title, UnknownTitle)
    /\ ValueOrSentinel(xJob.location, xRaw.location, UnknownLocation)
    /\ ValueOrSentinel(xJob.description, xRaw.description, NoDescription)
    /\ ValueOrSentinel(xJob.company,
                       IF TruthyString(xRaw.company_name)
                         THEN xRaw.company_name ELSE ExpectedRecovery(xRaw),
                       UnknownCompany)

\* A record without any of the four fields has been normalized to the four
\* sentinels.
C26_Witness ==
  /\ xPc = "job"
  /\ xRaw.title = Undefined
  /\ xRaw.company_name = Undefined
  /\ xRaw.location = Undefined
  /\ xRaw.description = Undefined
  /\ xJob.title = UnknownTitle
  /\ xJob.company = UnknownCompany
  /\ xJob.location = UnknownLocation
  /\ xJob.description = NoDescription

\* The numbers the amount literals of SalaryTexts denote.
AmountValue(a) ==
  IF a = <<"1", "8">> THEN Number(18, <<>>)
  ELSE IF a = <<"2", "2">> THEN Number(22, <<>>)
  ELSE Number(50000, <<"5">>)

\* hour -> hourly, day -> daily, week -> weekly, month -> monthly,
\* year -> yearly
PeriodEnum(unit) ==
  IF unit = <<"h", "o", "u", "r">> THEN "hourly"
  ELSE IF unit = <<"d", "a", "y">> THEN "daily"
  ELSE IF unit = <<"w", "e", "e", "k">> THEN "weekly"
  ELSE IF unit = <<"m", "o", "n", "t", "h">> THEN "monthly"
  ELSE "yearly"

\* What the claim tells of each text of SalaryTexts: the second amount or,
\* without one, the first as max; the unit's period or, without one, yearly.
SalaryCases ==
  {[text |-> SalaryText(p, a, b, u),
    info |-> [min |-> AmountValue(a),
              max |-> IF b = <<>> THEN AmountValue(a) ELSE AmountValue(b),
              currency |-> "USD",
              period |-> IF u = <<>> THEN "yearly" ELSE PeriodEnum(u)]] :
     p \in SalaryPrefixes, a \in AmountLiterals, b \in AmountLiterals \cup {<<>>},
     u \in {SalaryUnits[k] : k \in DOMAIN SalaryUnits} \cup {<<>>}}

\* The one text of the job that tells a salary: the description, or the
\* second item of its Compensation highlight.
SalaryTextOf(job) ==
  IF job.highlights = <<>> THEN job.description ELSE job.highlights[1].items[2]

\* 'Pay: $18 - $22 per hour'
PayRange ==
  SalaryText(<<"P", "a", "y", ":", " ">>, <<"1", "8">>, <<"2", "2">>, <<"h", "o", "u", "r">>)

\* C27: for a text holding '$a - $b per <unit>' extractSalaryInfo returns
\* min = a, max = b, currency USD and the period enum of the unit; without a
\* second amount max = min; without a period keyword the period is yearly.
\* 'Pay: $18 - $22 per hour' gives 18, 22, hourly, USD.
C27_SalaryExtraction ==
  xPc \in {"salary", "skills", "level"} =>
    /\ \A c \in SalaryCases : SalaryTextOf(xJob) = c.text => xSalaryInfo = c.info
    /\ SalaryTextOf(xJob) = PayRange =>
         xSalaryInfo = [min |-> Number(18, <<>>), max |-> Number(22, <<>>),
                        currency |-> "USD", period |-> "hourly"]

\* extractSalaryInfo has read 'Pay: $18 - $22 per hour' off a description.
C27_Witness ==
  /\ xPc = "salary"
  /\ xJob.description = PayRange
  /\ xSalaryInfo.min = Number(18, <<>>)
  /\ xSalaryInfo.max = Number(22, <<>>)
  /\ xSalaryInfo.period = "hourly"

\* The tiers in the order of their precedence.
Tiers ==
  <<[level |-> "executive", keywords |-> ExecutiveKeywords],
    [level |-> "senior", keywords |-> SeniorKeywords],
    [level |-> "entry", keywords |-> EntryKeywords]>>

\* The first tier one of whose keywords occurs in the lower-cased title, or
\* "mid".
LevelOfTitle ==
  [title \in LevelTitles \cup {LunaCookTitle, UnknownTitle,
                                 <<" ", "-", " ", "C", "o", "o", "k">>} |->
     LET matching == {t \in DOMAIN Tiers :
                        \E k \in DOMAIN Tiers[t].keywords :
                          Includes(ToLowerCase(title), Tiers[t].keywords[k])}
     IN IF matching = {} THEN "mid" ELSE Tiers[MinOf(matching)].level]

RECURSIVE CompensationItems(_)
CompensationItems(highlights) ==
  IF highlights = <<>> THEN <<>>
  ELSE (IF Head(highlights).title = "Compensation" THEN Head(highlights).items ELSE <<>>)
         \o CompensationItems(Tail(highlights))

\* The text first-match-wins reads the salary from: the first Compensation
\* item that matches the pattern, else the description, else no text.
FirstSalaryText(job) ==
  LET items == CompensationItems(job.highlights)
      hits == {k \in DOMAIN items : SalaryMatch(items[k]).matched}
  IN IF hits # {} THEN items[MinOf(hits)]
     ELSE IF TruthyString(job.description) THEN job.description
     ELSE <<>>

\* C34: salary source priority with first match wins. extractSalaryInfo
\* returns what the first matching item of the Compensation-titled blocks
\* tells, and what the description tells only when no such item matched: no
\* later matching item or block changes the amounts or the period.
C34_FirstMatchWins ==
  xPc \in {"salary", "skills", "level"} =>
    xSalaryInfo =
      IF SalaryMatch(FirstSalaryText(xJob)).matched
        THEN ApplySalaryMatch(InitialSalaryInfo, SalaryMatch(FirstSalaryText(xJob)))
        ELSE InitialSalaryInfo

\* The text before the first ' - ' of a title, empty without a ' - '.
BeforeFirstDash(title) ==
  LET at == {p \in 1..Len(title) : HoldsAt(title, p, <<" ", "-", " ">>)}
  IN IF at = {} THEN <<>> ELSE SubSeq(title, 1, MinOf(at) - 1)

\* 'Cook for Nobu.'
CookForNobu == <<"C", "o", "o", "k", " ", "f", "o", "r", " ", "N", "o", "b", "u", ".">>

\* The trimmed span after at/with/for/join in the descriptions of the
\* inputs: 'Join Luna Bistro in NYC.' gives 'Luna Bistro', 'Cook for Nobu.'
\* gives 'Nobu', 'at  .' gives the empty string, the others have no span.
SpanAfterKeyword(description) ==
  IF description = JoinLunaText THEN LunaBistro
  ELSE IF description = CookForNobu THEN <<"N", "o", "b", "u">>
  ELSE <<>>

\* C35: company-name recovery follows a fixed order. The company of the
\* canonical job is the provider's company field when present; else the text
\* before the first ' - ' of the title when that is non-empty; else the
\* trimmed span after at/with/for/join in the description; else 'Unknown
\* Company'. A later source is used only when every earlier one yields
\* nothing.
C35_RecoveryOrder ==
  xPc \in {"job", "salary", "skills", "level"} =>
    xJob.company =
      IF TruthyString(xRaw.company_name) THEN xRaw.company_name
      ELSE IF TruthyString(xRaw.title) /\ BeforeFirstDash(xRaw.title) # <<>>
        THEN BeforeFirstDash(xRaw.title)
      ELSE IF TruthyString(xRaw.description) /\ SpanAfterKeyword(xRaw.description) # <<>>
        THEN SpanAfterKeyword(xRaw.description)
      ELSE UnknownCompany

\* A record without company field, titled 'Luna Bistro - Cook' and described
\* by 'Cook for Nobu.', has been normalized: the title told the company.
C35_Witness ==
  /\ xPc = "job"
  /\ xRaw.company_name = Undefined
  /\ xRaw.title = LunaCookTitle
  /\ xRaw.description = CookForNobu
  /\ xJob.company = LunaBistro

\* The texts extractSkills is to look into: the description and the items of
\* the highlights titled 'Qualifications', lower-cased.
SkillTexts(job) ==
  {ToLowerCase(job.description)}
    \cup UNION {{ToLowerCase(job.highlights[h].items[i]) : i \in DOMAIN job.highlights[h].items} :
                h \in {g \in DOMAIN job.highlights : job.highlights[g].title = "Qualifications"}}

\* C36: extractSkills returns exactly the terms of the vocabulary that occur,
\* whatever their case, in the description or in an item of a highlight
\* titled 'Qualifications', each of them once; a term that occurs only in
\* other highlights is not returned.
C36_SkillsExact ==
  xPc \in {"skills", "level"} =>
    /\ \A texts \in {SkillTexts(xJob)} :
         {xSkills[i] : i \in DOMAIN xSkills} =
           {commonCulinarySkills[k] : k \in {v \in DOMAIN commonCulinarySkills :
              \E text \in texts : Includes(text, commonCulinarySkills[v])}}
    /\ \A i, j \in DOMAIN xSkills : xSkills[i] = xSkills[j] => i = j

\* extractSkills has read 'Baking and GRILLING, knife skills.' and the
\* Qualifications 'Baking, Sautéing' and 'Food Safety and baking': baking,
\* grilling, knife skills, sautéing, food safety.
C36_Witness ==
  /\ xPc = "skills"
  /\ Len(xJob.highlights) = 1
  /\ xJob.highlights[1].title = "Qualifications"
  /\ xSkills = <<commonCulinarySkills[2], commonCulinarySkills[3], commonCulinarySkills[5],
                 commonCulinarySkills[4], commonCulinarySkills[9]>>

====
